---- MODULE Spec2Model ----
(***************************************************************************)
(* A model of the onboarding cookbook's glue code: the webhook handler     *)
(* (webhook_handler.js), the Slack escalation, the user preferences        *)
(* manager, and the routing / automation definitions it hands to the       *)
(* hosted notification platform.                                           *)
(*                                                                         *)
(* JavaScript is single threaded: an async function runs without           *)
(* interruption up to its next await of a platform call.  Every such call  *)
(* is one step of the model; the steps of concurrently running handlers    *)
(* and timer callbacks interleave freely.                                  *)
(***************************************************************************)
EXTENDS Integers, Sequences, FiniteSets, Bags, TLC

VARIABLES
    \* webhook handler (webhook_handler.js)
    profile,      \* the recipient's profile in the platform
    timers,       \* bag of pending setTimeout callbacks
    procs,        \* bag of suspended handlers and timer callbacks
    calls,        \* bag of platform calls made so far
    resp,         \* the last request answered
    budget,       \* events still to be delivered
    seen,         \* the event bodies dispatched so far
    \* Slack escalation (slack_escalation.js)
    escProfile,   \* the customer's profile in the platform
    escCalls,     \* bag of checkAndEscalate calls in progress
    escAlerts,    \* alerts sent to the customer success channel
    escReturn,    \* outcomes of the calls finished, in order
    escLimit,     \* how many calls may be in progress at once
    \* user preferences (user_preferences_management.js)
    defaultPreferences, \* this.defaultPreferences, an object the methods share
    stored,       \* the preference record the platform holds for each user
    submitted,    \* the last record handed to courier.preferences.update
    returned,     \* the last result of getUserPreferences
    prefProfile,  \* what the manager merged into each user's profile
    prefBudget,   \* preference operations still to be made
    prefThrown,   \* the error the last setNotificationFrequency call threw
    prefDigests,  \* the digest automations created, by user and frequency
    \* quiet hours (user_preferences_management.js, isQuietHours)
    qhConfig,     \* the quietHoursConfig passed
    qhNow,        \* the instant of the last call, new Date()
    qhAnswer,     \* what the last call returned, <<>> before any call
    qhBudget,     \* calls still to be made
    \* applyPreferences (user_preferences_management.js)
    apInput,      \* the preferences passed and the zone the server runs in
    apNow,        \* the instant of the call
    apPc,         \* where the call is: idle, count (awaiting the log), done
    apResult,     \* what the call returned
    apTrace,      \* whether quiet hours were evaluated and the log queried
    \* routing of one send request (the platform's router)
    rtRequest,    \* the message passed to courier.send
    rtFaults,     \* what each channel's provider does with an attempt
    rtHistory,    \* the delivery attempts so far, oldest first
    \* automation runs (the platform's automation runner)
    autoProfile,  \* each recipient's profile
    autoFlow,     \* the flow each recipient's run executes
    autoRun,      \* each recipient's run of its flow
    autoInvokedWith, \* the profile as it was when the run was invoked
    autoResumedWith, \* the profile as it was at each resume of the run
    \* tenant notifications (multi_tenant_config.js)
    tnBrandId,    \* branding.brand_id of each tenant's configuration, 0: none
    tnProcs,      \* bag of sendTenantNotification calls in progress
    tnCreated,    \* brands.create calls made and failed, for each tenant
    tnSent,       \* bag of the messages passed to courier.send
    tnOutcome,    \* how the last call that ended ended
    tnBudget,     \* calls still to be made
    \* onboarding tasks (onboarding_tasks_backend.js)
    tkRun         \* each user's createOnboardingTasks call

whVars == <<profile, timers, procs, calls, resp, budget, seen>>
escVars == <<escProfile, escCalls, escAlerts, escReturn, escLimit>>

freqVars == <<prefThrown, prefDigests>>
prefVars == <<defaultPreferences, stored, submitted, returned, prefProfile,
              prefBudget, freqVars>>

qhVars == <<qhConfig, qhNow, qhAnswer, qhBudget>>

apVars == <<apInput, apNow, apPc, apResult, apTrace>>
rtVars == <<rtRequest, rtFaults, rtHistory>>
autoVars == <<autoProfile, autoFlow, autoRun, autoInvokedWith, autoResumedWith>>
tnVars == <<tnBrandId, tnProcs, tnCreated, tnSent, tnOutcome, tnBudget>>

vars == <<whVars, escVars, prefVars, qhVars, apVars, rtVars, autoVars, tnVars,
          tkRun>>

nonWebhook == <<escVars, prefVars, qhVars, apVars, rtVars, autoVars, tnVars, tkRun>>
nonEscalation == <<whVars, prefVars, qhVars, apVars, rtVars, autoVars, tnVars, tkRun>>
nonPreferences == <<whVars, escVars, qhVars, apVars, rtVars, autoVars, tnVars, freqVars, tkRun>>
nonQuietHours == <<whVars, escVars, prefVars, apVars, rtVars, autoVars, tnVars, tkRun>>
nonRouting == <<whVars, escVars, prefVars, qhVars, apVars, autoVars, tnVars, tkRun>>
nonAutomation == <<whVars, escVars, prefVars, qhVars, apVars, rtVars, tnVars, tkRun>>
nonTenant == <<whVars, escVars, prefVars, qhVars, apVars, rtVars, autoVars, tkRun>>
nonFrequency == <<whVars, escVars, qhVars, apVars, rtVars, autoVars, tnVars, tkRun>>
nonTasks == <<whVars, escVars, prefVars, qhVars, apVars, rtVars, autoVars, tnVars>>
nonApply == <<whVars, escVars, prefVars, qhVars, rtVars, autoVars, tnVars, tkRun>>

-----------------------------------------------------------------------------
(* Bounds                                                                  *)

MaxEvents == 2
MaxInFlight == 2
MaxUndeliverable == 5
MaxEscalationChecks == 3
MaxPrefOps == 3
MaxQuietChecks == 2
MaxDelayedEvents == 2
MaxLogged == 2
MaxDispatched == 3
MaxSentEvents == 3
MaxTenantSends == 3

-----------------------------------------------------------------------------
(* Webhook handler                                                         *)

Messages == {"m1", "m2"}
WChannels == {"email", "sms"}
Tasks == {"complete-profile", "invite-team", "create-project"}
\* Task ids an inbox:read event may carry (one of them not an onboarding task).
TaskIds == Tasks \cup {"watch-video"}

\* The shared secret of the deployment and a secret an outsider signs with.
WebhookSecret == "COURIER_WEBHOOK_SECRET"
OtherSecret == "not-the-secret"

\* crypto.createHmac('sha256', secret).update(payload).digest('hex'):
\* 64 hex characters that are a function of the secret and the payload.
HmacSha256Hex(payload, secret) ==
    [present |-> TRUE, len |-> 64, digest |-> <<secret, payload>>]

\* A request without the x-courier-signature header.
NoSignature == [present |-> FALSE, len |-> 0, digest |-> <<>>]
\* A header of three characters.
ShortSignature == [present |-> TRUE, len |-> 3, digest |-> <<"abc">>]

\* crypto.timingSafeEqual(Buffer.from(signature), Buffer.from(expected)):
\* Buffer.from(undefined) throws a TypeError, buffers of different byte
\* length make timingSafeEqual throw a RangeError.
verifyWebhookSignature(payload, signature, secret) ==
    LET expectedSignature == HmacSha256Hex(payload, secret)
    IN  IF ~signature.present THEN "throw"
        ELSE IF signature.len # expectedSignature.len THEN "throw"
        ELSE IF signature.digest = expectedSignature.digest THEN "true"
        ELSE "false"

\* scheduleRetry's retryDelays has four entries (5 min, 30 min, 2 h, 24 h).
RetryDelaysLength == 4

\* checkForFollowUpActions' followUpMap.
followUpMap(template) ==
    CASE template = "welcome-email" -> "onboarding-day-2"
      [] template = "trial-halfway" -> "trial-urgency"
      [] template = "feature-announcement" -> "feature-tutorial"
      [] OTHER -> "none"

\* checkMilestones' milestones table: the tasks that have a milestone.
milestones == {"complete-profile", "invite-team", "create-project"}

\* triggerNextAutomation's automationSequence.
automationSequence(automationId) ==
    CASE automationId = "onboarding-welcome-flow" -> "onboarding-activation-flow"
      [] automationId = "trial-nurture-sequence" -> "trial-conversion-sequence"
      [] automationId = "feature-education-flow" -> "advanced-features-flow"
      [] OTHER -> "none"

isCriticalAutomation(automationId) ==
    automationId \in {"enterprise-onboarding-flow", "payment-processing-flow",
                      "security-alert-flow"}

\* calculateProgress: (completed / tasks.length) * 100, kept as whole percent.
calculateProgress(p) ==
    (Cardinality({t \in Tasks : p.task_completed[t]}) * 100) \div Cardinality(Tasks)

\* The body of a webhook request: {type, data}.
Body(type, msg, channel, reason, template, link, task, automation) ==
    [type |-> type, msg |-> msg, channel |-> channel, reason |-> reason,
     template |-> template, link |-> link, task |-> task,
     automation |-> automation]

Reasons == {"invalid_email", "hard_bounce", "soft_bounce", "temporary_failure",
            "unsubscribed", "mailbox_full"}

SentBodies ==
    {Body("message:sent", m, c, "-", "welcome-email", "-", "-", "-") :
        m \in Messages, c \in WChannels}
DeliveredBodies ==
    {Body("message:delivered", m, "email", "-", "-", "-", "-", "-") : m \in Messages}
OpenedBodies ==
    {Body("message:opened", m, "email", "-", t, "-", "-", "-") :
        m \in Messages, t \in {"welcome-email", "newsletter"}}
ClickedBodies ==
    {Body("message:clicked", m, "-", "-", "welcome-email", l, "-", "-") :
        m \in Messages, l \in {"/pricing", "/demo", "/docs", "undefined"}}
UndeliverableBodies ==
    {Body("message:undeliverable", m, "email", r, "-", "-", "-", "-") :
        m \in Messages, r \in Reasons}
InboxReadBodies ==
    {Body("inbox:read", m, "-", "-", "-", "-", t, "-") :
        m \in Messages, t \in TaskIds \cup {"undefined"}}
InboxArchivedBodies ==
    {Body("inbox:archived", m, "-", "-", "-", "-", "-", "-") : m \in Messages}
PreferencesBodies ==
    {Body("preferences:updated", "-", "-", "-", "-", "-", "-", "-")}
AutomationBodies ==
    {Body(t, "-", "-", "-", "-", "-", "-", a) :
        t \in {"automation:completed", "automation:failed"},
        a \in {"onboarding-welcome-flow", "security-alert-flow"}}
UnknownBodies ==
    {Body("message:unroutable", m, "-", "-", "-", "-", "-", "-") : m \in Messages}

Bodies ==
    SentBodies \cup DeliveredBodies \cup OpenedBodies \cup ClickedBodies
    \cup UndeliverableBodies \cup InboxReadBodies \cup InboxArchivedBodies
    \cup PreferencesBodies \cup AutomationBodies \cup UnknownBodies

\* The signature headers a request for body b may carry.
Signatures(b) ==
    {HmacSha256Hex(b, WebhookSecret), HmacSha256Hex(b, OtherSecret),
     ShortSignature, NoSignature}

-----------------------------------------------------------------------------
(* Webhook handler: state and steps                                        *)

\* The number of elements of bag B that satisfy kind k.
RECURSIVE CountIn(_, _)
CountIn(B, S) ==
    IF S = {} THEN 0
    ELSE LET x == CHOOSE y \in S : TRUE
         IN  CopiesIn(x, B) + CountIn(B, S \ {x})

NumRequests == CountIn(procs, {p \in BagToSet(procs) : p.kind = "req"})

Put(B, x) == B (+) SetToBag({x})
Take(B, x) == B (-) SetToBag({x})

\* A platform call, with the event whose handling made it.
Call(api, arg, b) == [api |-> api, arg |-> arg, cause |-> b]

NoBody == Body("-", "-", "-", "-", "-", "-", "-", "-")
NoResponse == [sigValid |-> TRUE, body |-> NoBody, status |-> "-"]

InitProfile(hasPhone) ==
    [sent_count |-> [c \in WChannels |-> 0],
     retry_count |-> [m \in Messages |-> 0],
     email_valid |-> "unset",
     phone_number |-> hasPhone,
     email_engagement |-> "unset",
     engagement_level |-> "unset",
     unsubscribed |-> [c \in WChannels |-> FALSE],
     task_completed |-> [t \in TaskIds |-> FALSE],
     onboarding_progress |-> 0,
     notification_preferences |-> "unset",
     communication_strategy |-> "unset"]

InitWebhook(n) ==
    /\ \E hasPhone \in BOOLEAN : profile = InitProfile(hasPhone)
    /\ timers = EmptyBag
    /\ procs = EmptyBag
    /\ calls = EmptyBag
    /\ resp = NoResponse
    /\ budget = n
    /\ seen = {}

\* res.status(status).json(...) for the request p was suspended in.
Respond(p, status) ==
    /\ procs' = Take(procs, p)
    /\ resp' = [sigValid |-> TRUE, body |-> p.body, status |-> status]

\* The handler of p is suspended again, at pc, holding loc.
Suspend(p, pc, loc) ==
    /\ procs' = Put(Take(procs, p), [p EXCEPT !.pc = pc, !.loc = loc])
    /\ UNCHANGED resp

Running(type) ==
    {p \in BagToSet(procs) : p.kind = "req" /\ p.body.type = type}

\* A dispatch whose default case throws: an event of a type without a
\* handler is answered 500.
PostWebhookUnknownRejected(b, signature) ==
    /\ budget > 0
    /\ NumRequests < MaxInFlight
    /\ budget' = budget - 1
    /\ LET verdict == verifyWebhookSignature(b, signature, WebhookSecret)
           sigValid == signature = HmacSha256Hex(b, WebhookSecret)
           known == b.type \in
               {"message:sent", "message:delivered", "message:opened",
                "message:clicked", "message:undeliverable", "inbox:read",
                "inbox:archived", "preferences:updated",
                "automation:completed", "automation:failed"}
       IN  CASE verdict = "throw" ->
                  /\ \E outcome \in {"unanswered", "500"} :
                        resp' = [sigValid |-> sigValid, body |-> b,
                                 status |-> outcome]
                  /\ UNCHANGED <<procs, seen, nonWebhook>>
             [] verdict = "false" ->
                  /\ resp' = [sigValid |-> sigValid, body |-> b, status |-> "401"]
                  /\ UNCHANGED <<procs, seen, nonWebhook>>
             [] verdict = "true" /\ known ->
                  /\ procs' = Put(procs, [kind |-> "req", body |-> b,
                                          sigValid |-> sigValid,
                                          pc |-> "start", loc |-> 0])
                  /\ seen' = seen \cup {b}
                  /\ UNCHANGED resp
             [] OTHER ->
                  /\ resp' = [sigValid |-> sigValid, body |-> b, status |-> "500"]
                  /\ seen' = seen \cup {b}
                  /\ UNCHANGED procs
    /\ UNCHANGED <<profile, timers, calls, nonWebhook>>

\* router.post('/webhooks/courier'): the signature check and the dispatch.
\* A throw of verifyWebhookSignature happens outside the try block of an
\* async route handler: Express 4 leaves the request unanswered, Express 5
\* passes the rejection to its error handler, which answers 500.
PostWebhook(b, signature) ==
    /\ budget > 0
    /\ NumRequests < MaxInFlight
    /\ budget' = budget - 1
    /\ LET verdict == verifyWebhookSignature(b, signature, WebhookSecret)
           sigValid == signature = HmacSha256Hex(b, WebhookSecret)
           known == b.type \in
               {"message:sent", "message:delivered", "message:opened",
                "message:clicked", "message:undeliverable", "inbox:read",
                "inbox:archived", "preferences:updated",
                "automation:completed", "automation:failed"}
       IN  CASE verdict = "throw" ->
                  /\ \E outcome \in {"unanswered", "500"} :
                        resp' = [sigValid |-> sigValid, body |-> b,
                                 status |-> outcome]
                  /\ UNCHANGED <<procs, seen, nonWebhook>>
             [] verdict = "false" ->
                  /\ resp' = [sigValid |-> sigValid, body |-> b, status |-> "401"]
                  /\ UNCHANGED <<procs, seen, nonWebhook>>
             [] verdict = "true" /\ known ->
                  /\ procs' = Put(procs, [kind |-> "req", body |-> b,
                                          sigValid |-> sigValid,
                                          pc |-> "start", loc |-> 0])
                  /\ seen' = seen \cup {b}
                  /\ UNCHANGED resp
             [] OTHER ->
                  /\ resp' = [sigValid |-> sigValid, body |-> b, status |-> "200"]
                  /\ seen' = seen \cup {b}
                  /\ UNCHANGED procs
    /\ UNCHANGED <<profile, timers, calls, nonWebhook>>

\* updateUserEngagement(recipientId, 'message_sent', channel): the count is
\* read with profiles.get and written back, plus one, with profiles.merge.
updateUserEngagement(p) ==
    IF p.pc = "start"
    THEN /\ Suspend(p, "merge", profile.sent_count[p.body.channel])
         /\ UNCHANGED profile
    ELSE /\ profile' = [profile EXCEPT !.sent_count[p.body.channel] = p.loc + 1]
         /\ Respond(p, "200")

handleMessageSent ==
    \E p \in Running("message:sent") :
        /\ updateUserEngagement(p)
        /\ UNCHANGED <<timers, calls, budget, seen, nonWebhook>>

handleMessageDelivered ==
    \E p \in Running("message:delivered") :
        /\ Respond(p, "200")
        /\ UNCHANGED <<profile, timers, calls, budget, seen, nonWebhook>>

\* checkForFollowUpActions: a 24 hour timer that sends the follow-up.
checkForFollowUpActions(b) ==
    LET nextTemplate == followUpMap(b.template)
    IN  IF nextTemplate # "none"
        THEN timers' = Put(timers, [kind |-> "followup", retryCount |-> 0,
                                    template |-> nextTemplate, body |-> b])
        ELSE UNCHANGED timers

handleMessageOpened ==
    \E p \in Running("message:opened") :
        /\ IF p.pc = "start"
           THEN \* calculateEngagementScore reads the profile
                /\ Suspend(p, "merge", 0)
                /\ UNCHANGED <<profile, timers>>
           ELSE /\ profile' = [profile EXCEPT !.email_engagement = "active"]
                /\ checkForFollowUpActions(p.body)
                /\ Respond(p, "200")
        /\ UNCHANGED <<calls, budget, seen, nonWebhook>>

\* link.includes(...) on a click event without a link is a TypeError.
handleMessageClicked ==
    \E p \in Running("message:clicked") :
        /\ IF p.pc = "start"
           THEN /\ profile' = [profile EXCEPT !.engagement_level = "high"]
                /\ CASE p.body.link = "undefined" -> Respond(p, "500")
                     [] p.body.link \in {"/pricing", "/demo"} ->
                            Suspend(p, "invoke", 0)
                     [] OTHER -> Respond(p, "200")
                /\ UNCHANGED calls
           ELSE /\ calls' = Put(calls, Call("invoke",
                        IF p.body.link = "/pricing"
                        THEN "pricing-interest-nurture"
                        ELSE "demo-scheduling-flow", p.body))
                /\ Respond(p, "200")
                /\ UNCHANGED profile
        /\ UNCHANGED <<timers, budget, seen, nonWebhook>>

\* scheduleRetry, after its profiles.get: the timer captures retryCount.
scheduleRetry(b) ==
    LET retryCount == profile.retry_count[b.msg]
    IN  IF retryCount < RetryDelaysLength
        THEN timers' = Put(timers, [kind |-> "retry", retryCount |-> retryCount,
                                    template |-> "-", body |-> b])
        ELSE UNCHANGED timers

\* A switch in which hard_bounce stands with the reasons that are retried.
handleMessageUndeliverableHardRetried ==
    \E p \in Running("message:undeliverable") :
        /\ CASE p.pc = "start" /\ p.body.reason \in {"invalid_email"} ->
                  \* handleInvalidEmail: the merge
                  /\ profile' = [profile EXCEPT !.email_valid = "false"]
                  /\ Suspend(p, "inv_get", 0)
                  /\ UNCHANGED <<timers, calls>>
             [] p.pc = "start" /\ p.body.reason \in {"hard_bounce", "soft_bounce", "temporary_failure"} ->
                  /\ scheduleRetry(p.body)
                  /\ Respond(p, "200")
                  /\ UNCHANGED <<profile, calls>>
             [] p.pc = "start" /\ p.body.reason = "unsubscribed" ->
                  \* handleUnsubscribe
                  /\ profile' = [profile EXCEPT !.unsubscribed[p.body.channel] = TRUE]
                  /\ Respond(p, "200")
                  /\ UNCHANGED <<timers, calls>>
             [] p.pc = "start" ->
                  \* notifyOpsTeam
                  /\ calls' = Put(calls, Call("send", "ops-alert", p.body))
                  /\ Respond(p, "200")
                  /\ UNCHANGED <<profile, timers>>
             [] p.pc = "inv_get" ->
                  \* handleInvalidEmail: the profile is read for a phone number
                  /\ IF profile.phone_number
                     THEN Suspend(p, "inv_send", 0)
                     ELSE Respond(p, "200")
                  /\ UNCHANGED <<profile, timers, calls, nonWebhook>>
             [] OTHER ->
                  /\ calls' = Put(calls, Call("send", "email-invalid-sms-fallback",
                                              p.body))
                  /\ Respond(p, "200")
                  /\ UNCHANGED <<profile, timers>>
        /\ UNCHANGED <<budget, seen, nonWebhook>>

handleMessageUndeliverable ==
    \E p \in Running("message:undeliverable") :
        /\ CASE p.pc = "start" /\ p.body.reason \in {"invalid_email", "hard_bounce"} ->
                  \* handleInvalidEmail: the merge
                  /\ profile' = [profile EXCEPT !.email_valid = "false"]
                  /\ Suspend(p, "inv_get", 0)
                  /\ UNCHANGED <<timers, calls>>
             [] p.pc = "start" /\ p.body.reason \in {"soft_bounce", "temporary_failure"} ->
                  /\ scheduleRetry(p.body)
                  /\ Respond(p, "200")
                  /\ UNCHANGED <<profile, calls>>
             [] p.pc = "start" /\ p.body.reason = "unsubscribed" ->
                  \* handleUnsubscribe
                  /\ profile' = [profile EXCEPT !.unsubscribed[p.body.channel] = TRUE]
                  /\ Respond(p, "200")
                  /\ UNCHANGED <<timers, calls>>
             [] p.pc = "start" ->
                  \* notifyOpsTeam
                  /\ calls' = Put(calls, Call("send", "ops-alert", p.body))
                  /\ Respond(p, "200")
                  /\ UNCHANGED <<profile, timers>>
             [] p.pc = "inv_get" ->
                  \* handleInvalidEmail: the profile is read for a phone number
                  /\ IF profile.phone_number
                     THEN Suspend(p, "inv_send", 0)
                     ELSE Respond(p, "200")
                  /\ UNCHANGED <<profile, timers, calls, nonWebhook>>
             [] OTHER ->
                  /\ calls' = Put(calls, Call("send", "email-invalid-sms-fallback",
                                              p.body))
                  /\ Respond(p, "200")
                  /\ UNCHANGED <<profile, timers>>
        /\ UNCHANGED <<budget, seen, nonWebhook>>

\* handleInboxRead: onboarding_progress is computed from the profile as read
\* before the merge; checkMilestones sends for a task that has a milestone.
handleInboxRead ==
    \E p \in Running("inbox:read") :
        /\ CASE p.pc = "start" ->
                  /\ IF p.body.task # "undefined"
                     THEN Suspend(p, "merge", calculateProgress(profile))
                     ELSE Respond(p, "200")
                  /\ UNCHANGED <<profile, calls>>
             [] p.pc = "merge" ->
                  /\ profile' = [profile EXCEPT
                        !.task_completed[p.body.task] = TRUE,
                        !.onboarding_progress = p.loc]
                  /\ IF p.body.task \in milestones
                     THEN Suspend(p, "send", 0)
                     ELSE Respond(p, "200")
                  /\ UNCHANGED calls
             [] OTHER ->
                  /\ calls' = Put(calls, Call("send", "milestone-achieved", p.body))
                  /\ Respond(p, "200")
                  /\ UNCHANGED profile
        /\ UNCHANGED <<timers, budget, seen, nonWebhook>>

handleInboxArchived ==
    \E p \in Running("inbox:archived") :
        /\ Respond(p, "200")
        /\ UNCHANGED <<profile, timers, calls, budget, seen, nonWebhook>>

\* handlePreferencesUpdated, then adjustCommunicationStrategy: two merges.
handlePreferencesUpdated ==
    \E p \in Running("preferences:updated") :
        /\ IF p.pc = "start"
           THEN /\ profile' = [profile EXCEPT !.notification_preferences = "set"]
                /\ Suspend(p, "adjust", 0)
           ELSE /\ profile' = [profile EXCEPT !.communication_strategy = "set"]
                /\ Respond(p, "200")
        /\ UNCHANGED <<timers, calls, budget, seen, nonWebhook>>

\* handleAutomationCompleted: triggerNextAutomation.
handleAutomationCompleted ==
    \E p \in Running("automation:completed") :
        /\ LET nextAutomation == automationSequence(p.body.automation)
           IN  IF nextAutomation # "none"
               THEN calls' = Put(calls, Call("invoke", nextAutomation, p.body))
               ELSE UNCHANGED calls
        /\ Respond(p, "200")
        /\ UNCHANGED <<profile, timers, budget, seen, nonWebhook>>

\* handleAutomationFailed: the ops team is told of a critical automation.
handleAutomationFailed ==
    \E p \in Running("automation:failed") :
        /\ IF isCriticalAutomation(p.body.automation)
           THEN calls' = Put(calls, Call("send", "ops-alert", p.body))
           ELSE UNCHANGED calls
        /\ Respond(p, "200")
        /\ UNCHANGED <<profile, timers, budget, seen, nonWebhook>>

\* Whether the next step of p is a call of the platform.
AwaitsPlatform(p) ==
    CASE p.body.type \in {"message:delivered", "inbox:archived"} -> FALSE
      [] p.body.type = "automation:completed" ->
            automationSequence(p.body.automation) # "none"
      [] p.body.type = "automation:failed" ->
            isCriticalAutomation(p.body.automation)
      [] OTHER -> TRUE

\* A catch block that answers 200 whatever happened.
PlatformCallFailsAcknowledged ==
    \E p \in BagToSet(procs) :
        /\ p.kind = "req"
        /\ AwaitsPlatform(p)
        /\ Respond(p, "200")
        /\ UNCHANGED <<profile, timers, calls, budget, seen, nonWebhook>>

\* A platform call of a request handler rejects: the catch answers 500.
PlatformCallFails ==
    \E p \in BagToSet(procs) :
        /\ p.kind = "req"
        /\ AwaitsPlatform(p)
        /\ Respond(p, "500")
        /\ UNCHANGED <<profile, timers, calls, budget, seen, nonWebhook>>

\* The callback of scheduleRetry's timer runs: courier.messages.retry.
RetryTimerFires ==
    \E t \in BagToSet(timers) :
        /\ t.kind = "retry"
        /\ timers' = Take(timers, t)
        /\ calls' = Put(calls, Call("retry", t.body.msg, t.body))
        /\ procs' = Put(procs, [kind |-> "timer", body |-> t.body,
                                sigValid |-> TRUE,
                                pc |-> "merge", loc |-> t.retryCount])
        /\ UNCHANGED <<profile, resp, budget, seen, nonWebhook>>

\* The callback goes on: the merge of the captured retryCount, plus one.
RetryCountMerge ==
    \E p \in BagToSet(procs) :
        /\ p.kind = "timer"
        /\ profile' = [profile EXCEPT !.retry_count[p.body.msg] = p.loc + 1]
        /\ procs' = Take(procs, p)
        /\ UNCHANGED <<timers, calls, resp, budget, seen, nonWebhook>>

\* The callback of checkForFollowUpActions' timer runs: courier.send.
FollowUpTimerFires ==
    \E t \in BagToSet(timers) :
        /\ t.kind = "followup"
        /\ timers' = Take(timers, t)
        /\ calls' = Put(calls, Call("send", t.template, t.body))
        /\ UNCHANGED <<profile, procs, resp, budget, seen, nonWebhook>>

ReceiveAny ==
    \E b \in Bodies : \E signature \in Signatures(b) : PostWebhook(b, signature)

NextWebhook ==
    \/ ReceiveAny
    \/ handleMessageSent
    \/ handleMessageDelivered
    \/ handleMessageOpened
    \/ handleMessageClicked
    \/ handleMessageUndeliverable
    \/ handleInboxRead
    \/ handleInboxArchived
    \/ handlePreferencesUpdated
    \/ handleAutomationCompleted
    \/ handleAutomationFailed
    \/ PlatformCallFails
    \/ RetryTimerFires
    \/ RetryCountMerge
    \/ FollowUpTimerFires

\* The handler under message:undeliverable events alone, correctly signed.
\* One reason of each of the two switch cases (temporary_failure falls
\* through with soft_bounce, invalid_email with hard_bounce).
BounceBodies ==
    {b \in UndeliverableBodies : b.reason \in {"soft_bounce", "hard_bounce"}}

ReceiveUndeliverable ==
    \E b \in BounceBodies : PostWebhook(b, HmacSha256Hex(b, WebhookSecret))

NextRetry ==
    \/ ReceiveUndeliverable
    \/ handleMessageUndeliverable
    \/ PlatformCallFails
    \/ RetryTimerFires
    \/ RetryCountMerge

\* The dispatch under events of a type without a handler and events of
\* types whose handlers merge, set a timer, invoke and send, each signed
\* with the secret or with another one.
DispatchBodies ==
    UnknownBodies \cup AutomationBodies
    \cup {b \in OpenedBodies : b.msg = "m1"}

ReceiveDispatched ==
    \E b \in DispatchBodies :
    \E signature \in {HmacSha256Hex(b, WebhookSecret),
                       HmacSha256Hex(b, OtherSecret)} :
        PostWebhook(b, signature)

NextDispatch ==
    \/ ReceiveDispatched
    \/ handleMessageOpened
    \/ handleAutomationCompleted
    \/ handleAutomationFailed
    \/ PlatformCallFails
    \/ FollowUpTimerFires

\* The endpoint under correctly signed events of every kind of outcome: a
\* type without a handler, handlers that return at once or after platform
\* calls, and a click event without a link, whose handler throws a
\* TypeError after its merge.
AnsweredBodies ==
    DispatchBodies
    \cup {b \in ClickedBodies : b.msg = "m1" /\ b.link \in {"/pricing", "undefined"}}
    \cup {b \in DeliveredBodies : b.msg = "m1"}

ReceiveSigned ==
    \E b \in AnsweredBodies : PostWebhook(b, HmacSha256Hex(b, WebhookSecret))

NextAnswered ==
    \/ ReceiveSigned
    \/ handleMessageDelivered
    \/ handleMessageOpened
    \/ handleMessageClicked
    \/ handleAutomationCompleted
    \/ handleAutomationFailed
    \/ PlatformCallFails
    \/ FollowUpTimerFires

\* The handler under correctly signed message:sent events whose platform
\* calls all succeed.
ReceiveSent ==
    \E b \in SentBodies : PostWebhook(b, HmacSha256Hex(b, WebhookSecret))

NextSent ==
    \/ ReceiveSent
    \/ handleMessageSent

\* The handler under the events that leave a timer behind: an opened
\* message that has a follow-up and a soft bounce, correctly signed.
DelayedBodies ==
    {b \in OpenedBodies : followUpMap(b.template) # "none" /\ b.msg = "m1"}
    \cup {b \in UndeliverableBodies : b.reason = "soft_bounce" /\ b.msg = "m1"}

ReceiveDelayed ==
    \E b \in DelayedBodies : PostWebhook(b, HmacSha256Hex(b, WebhookSecret))

\* The Node process ends and is started again: the timers of setTimeout and
\* the handlers in progress are in its memory and go with it; the profile
\* and what was sent are the platform's and stay.
ProcessRestarts ==
    /\ timers # EmptyBag \/ procs # EmptyBag
    /\ timers' = EmptyBag
    /\ procs' = EmptyBag
    /\ UNCHANGED <<profile, calls, resp, budget, seen, nonWebhook>>

NextRestart ==
    \/ ReceiveDelayed
    \/ handleMessageOpened
    \/ handleMessageUndeliverable
    \/ PlatformCallFails
    \/ RetryTimerFires
    \/ RetryCountMerge
    \/ FollowUpTimerFires
    \/ ProcessRestarts

-----------------------------------------------------------------------------
(* Slack escalation                                                        *)

Plans == {"enterprise", "startup"}
OnboardingStatuses == {"in_progress", "completed"}
DaysSinceSignup == {3, 4}

\* The escalation variables when the model is about another component.
IdleEscalation ==
    /\ escProfile = [plan |-> "startup", onboarding_status |-> "completed",
                     days_since_signup |-> 0, escalated |-> FALSE,
                     escalation_count |-> 0]
    /\ escCalls = EmptyBag
    /\ escAlerts = 0
    /\ escReturn = <<>>
    /\ escLimit = 0

\* checkAndEscalate's escalation criteria.
shouldEscalate(p) ==
    /\ p.plan = "enterprise"
    /\ p.onboarding_status # "completed"
    /\ p.days_since_signup > 3
    /\ ~p.escalated

\* markAsEscalated(userId): the argument of profiles.merge reads
\* profile.escalation_count, and no profile is in scope: building the
\* argument throws a ReferenceError and profiles.merge is never called.
markAsEscalated(p) == [threw |-> TRUE, profile |-> p]

InitEscalation(limit) ==
    /\ \E plan \in Plans, status \in OnboardingStatuses,
          days \in DaysSinceSignup, escalated \in BOOLEAN :
          escProfile = [plan |-> plan, onboarding_status |-> status,
                        days_since_signup |-> days, escalated |-> escalated,
                        escalation_count |-> IF escalated THEN 1 ELSE 0]
    /\ escCalls = EmptyBag
    /\ escAlerts = 0
    /\ escReturn = <<>>
    /\ escLimit = limit

EscFinish(c, outcome) ==
    /\ escCalls' = Take(escCalls, c)
    /\ escReturn' = Append(escReturn, outcome)

\* checkAndEscalate(userId) is called.
EscalationCheckStarts ==
    /\ CountIn(escCalls, BagToSet(escCalls)) < escLimit
    /\ Len(escReturn) + CountIn(escCalls, BagToSet(escCalls)) < MaxEscalationChecks
    /\ escCalls' = Put(escCalls, [pc |-> "get"])
    /\ UNCHANGED <<escProfile, escAlerts, escReturn, escLimit, nonEscalation>>

\* profiles.get answers: the criteria are evaluated on the profile read.
EscalationProfileRead ==
    \E c \in BagToSet(escCalls) :
        /\ c.pc = "get"
        /\ IF shouldEscalate(escProfile)
           THEN /\ escCalls' = Put(Take(escCalls, c), [pc |-> "send"])
                /\ UNCHANGED escReturn
           ELSE EscFinish(c, "false")
        /\ UNCHANGED <<escProfile, escAlerts, escLimit, nonEscalation>>

\* sendSlackAlert: courier.send delivers the alert.
sendSlackAlert ==
    \E c \in BagToSet(escCalls) :
        /\ c.pc = "send"
        /\ escAlerts' = escAlerts + 1
        /\ escCalls' = Put(Take(escCalls, c), [pc |-> "mark"])
        /\ UNCHANGED <<escProfile, escReturn, escLimit, nonEscalation>>

\* sendSlackAlert: courier.send (or logs.list before it) rejects.
sendSlackAlertFails ==
    \E c \in BagToSet(escCalls) :
        /\ c.pc = "send"
        /\ EscFinish(c, "throws")
        /\ UNCHANGED <<escProfile, escAlerts, escLimit, nonEscalation>>

\* await this.markAsEscalated(userId), then return shouldEscalate.
EscalationMark ==
    \E c \in BagToSet(escCalls) :
        /\ c.pc = "mark"
        /\ LET marked == markAsEscalated(escProfile)
           IN  /\ escProfile' = marked.profile
               /\ EscFinish(c, IF marked.threw THEN "throws" ELSE "true")
        /\ UNCHANGED <<escAlerts, escLimit, nonEscalation>>

NextEscalation ==
    \/ EscalationCheckStarts
    \/ EscalationProfileRead
    \/ sendSlackAlert
    \/ sendSlackAlertFails
    \/ EscalationMark

-----------------------------------------------------------------------------
(* User preferences                                                        *)
(*                                                                         *)
(* A JavaScript value that should be a boolean is "true", "false", "junk"  *)
(* (any other value: a string, a number, null) or "undefined" (the key is  *)
(* not there).  An optional number or object is a sequence of length 0 or  *)
(* 1.  A preference object has all the keys of the default structure, each *)
(* possibly undefined.                                                     *)

Users == {"A", "B"}
ChannelKeys == {"email", "sms", "push", "inbox", "slack"}
CategoryKeys == {"marketing", "product_updates", "onboarding", "security",
                 "billing", "team_activity"}

IsBoolean(v) == v \in {"true", "false"}
IsDefined(v) == v # "undefined"

DefaultQuietHours ==
    [enabled |-> "true", start |-> "21:00", end |-> "09:00",
     timezone |-> "America/New_York"]

\* this.defaultPreferences as the constructor builds it.
BuiltInDefaults ==
    [channels |-> [k \in ChannelKeys |->
                     IF k \in {"email", "push", "inbox"} THEN "true" ELSE "false"],
     categories |-> [k \in CategoryKeys |-> "true"],
     frequency |-> [digest |-> "daily", max_per_day |-> <<10>>,
                    quiet_hours |-> <<DefaultQuietHours>>],
     language |-> "en",
     unsubscribed |-> "false"]

\* The object {} in the shape of a preference object.
EmptyPreferences ==
    [channels |-> [k \in ChannelKeys |-> "undefined"],
     categories |-> [k \in CategoryKeys |-> "undefined"],
     frequency |-> [digest |-> "undefined", max_per_day |-> <<>>,
                    quiet_hours |-> <<>>],
     language |-> "undefined",
     unsubscribed |-> "undefined"]

\* {...a, ...b} for one key: b's value where b has the key.
Spread(a, b) == IF IsDefined(b) THEN b ELSE a
SpreadOpt(a, b) == IF b # <<>> THEN b ELSE a

Min(a, b) == IF a < b THEN a ELSE b
Max(a, b) == IF a > b THEN a ELSE b

\* validatePreferences(preferences).  validated = {...this.defaultPreferences}
\* copies the top level only: validated.channels, validated.categories and
\* validated.frequency are the defaults' own objects, and the assignments to
\* them change this.defaultPreferences.  The result is the record returned
\* and the defaults as they are left.
validateRequired(category, value, default) ==
    IF IsBoolean(value)
    THEN IF category \in {"security", "billing"} THEN "true" ELSE value
    ELSE default

\* A validation in which a channel sent as true switches the channel over
\* instead of switching it on.
validatePreferencesToggling(defaults, preferences) ==
    LET channels == [k \in ChannelKeys |->
            IF preferences.channels[k] = "true"
            THEN (IF defaults.channels[k] = "true" THEN "false" ELSE "true")
            ELSE IF preferences.channels[k] = "false"
                 THEN "false" ELSE defaults.channels[k]]
        categories == [k \in CategoryKeys |->
            validateRequired(k, preferences.categories[k], defaults.categories[k])]
        frequency ==
            [digest |-> IF IsDefined(preferences.frequency.digest)
                        THEN preferences.frequency.digest
                        ELSE defaults.frequency.digest,
             max_per_day |->
                 IF preferences.frequency.max_per_day # <<>>
                 THEN <<Max(1, Min(100, preferences.frequency.max_per_day[1]))>>
                 ELSE defaults.frequency.max_per_day,
             quiet_hours |-> SpreadOpt(defaults.frequency.quiet_hours,
                                       preferences.frequency.quiet_hours)]
        left == [defaults EXCEPT !.channels = channels,
                                 !.categories = categories,
                                 !.frequency = frequency]
    IN  [validated |-> left, defaults |-> left]

validatePreferences(defaults, preferences) ==
    LET channels == [k \in ChannelKeys |->
            IF IsBoolean(preferences.channels[k])
            THEN preferences.channels[k] ELSE defaults.channels[k]]
        categories == [k \in CategoryKeys |->
            validateRequired(k, preferences.categories[k], defaults.categories[k])]
        frequency ==
            [digest |-> IF IsDefined(preferences.frequency.digest)
                        THEN preferences.frequency.digest
                        ELSE defaults.frequency.digest,
             max_per_day |->
                 IF preferences.frequency.max_per_day # <<>>
                 THEN <<Max(1, Min(100, preferences.frequency.max_per_day[1]))>>
                 ELSE defaults.frequency.max_per_day,
             quiet_hours |-> SpreadOpt(defaults.frequency.quiet_hours,
                                       preferences.frequency.quiet_hours)]
        left == [defaults EXCEPT !.channels = channels,
                                 !.categories = categories,
                                 !.frequency = frequency]
    IN  [validated |-> left, defaults |-> left]

\* mergeWithDefaults(preferences): a new object, the stored value of a key
\* over the default one, two levels deep for frequency.quiet_hours.
mergeWithDefaults(defaults, preferences) ==
    [channels |-> [k \in ChannelKeys |->
                     Spread(defaults.channels[k], preferences.channels[k])],
     categories |-> [k \in CategoryKeys |->
                     Spread(defaults.categories[k], preferences.categories[k])],
     frequency |->
        [digest |-> Spread(defaults.frequency.digest,
                           preferences.frequency.digest),
         max_per_day |-> SpreadOpt(defaults.frequency.max_per_day,
                                   preferences.frequency.max_per_day),
         quiet_hours |->
            IF preferences.frequency.quiet_hours = <<>>
               \/ defaults.frequency.quiet_hours = <<>>
            THEN SpreadOpt(defaults.frequency.quiet_hours,
                           preferences.frequency.quiet_hours)
            ELSE LET d == defaults.frequency.quiet_hours[1]
                     q == preferences.frequency.quiet_hours[1]
                 IN  <<[enabled |-> Spread(d.enabled, q.enabled),
                        start |-> Spread(d.start, q.start),
                        end |-> Spread(d.end, q.end),
                        timezone |-> Spread(d.timezone, q.timezone)]>>],
     language |-> Spread(defaults.language, preferences.language),
     unsubscribed |-> Spread(defaults.unsubscribed, preferences.unsubscribed)]

\* getUserPreferences(userId): the merge of what courier.preferences.get
\* answers, or, when that call throws (no record, or the call fails),
\* this.defaultPreferences itself: alias says the caller holds the shared
\* object, not a copy.
getUserPreferences(defaults, response) ==
    IF response = <<>>
    THEN [alias |-> TRUE, preferences |-> defaults]
    ELSE [alias |-> FALSE, preferences |-> mergeWithDefaults(defaults, response[1])]

\* What courier.preferences.get may do for user u: answer the stored record,
\* or throw.
Responses(u) == {stored[u], <<>>}

NoSubmission == [user |-> "-", record |-> BuiltInDefaults]
NoProfile == [preferences_updated |-> FALSE, unsubscribed |-> "undefined"]

\* Records a user may hold before the manager is used (written through the
\* platform's own preference center).
StoredBefore ==
    {<<>>,
     <<[EmptyPreferences EXCEPT !.categories["security"] = "false",
                                !.channels["sms"] = "true"]>>}

IdlePreferences ==
    /\ defaultPreferences = BuiltInDefaults
    /\ stored = [u \in Users |-> <<>>]
    /\ submitted = NoSubmission
    /\ returned = NoSubmission
    /\ prefProfile = [u \in Users |-> NoProfile]
    /\ prefBudget = 0
    /\ prefThrown = "-"
    /\ prefDigests = {}

InitPreferences ==
    /\ defaultPreferences = BuiltInDefaults
    /\ stored \in [Users -> StoredBefore]
    /\ submitted = NoSubmission
    /\ returned = NoSubmission
    /\ prefProfile = [u \in Users |-> NoProfile]
    /\ prefBudget = MaxPrefOps
    /\ prefThrown = "-"
    /\ prefDigests = {}

\* updatePreferences(userId, updates), with the defaults as the caller left
\* them: validate, courier.preferences.update, the profile merge of the
\* update's metadata (applyPreferences, called last, changes nothing).
updatePreferences(u, defaults, updates, profileNow) ==
    LET v == validatePreferences(defaults, updates)
    IN  /\ defaultPreferences' = v.defaults
        /\ submitted' = [user |-> u, record |-> v.validated]
        /\ stored' = [stored EXCEPT ![u] = <<v.validated>>]
        /\ prefProfile' = [prefProfile EXCEPT
                              ![u] = [profileNow EXCEPT !.preferences_updated = TRUE]]
        /\ prefBudget' = prefBudget - 1

\* The updates a caller may pass to updatePreferences.
UpdateInputs ==
    {[EmptyPreferences EXCEPT !.channels["sms"] = "true"],
     [EmptyPreferences EXCEPT !.categories["security"] = "false",
                              !.categories["marketing"] = "false"],
     [EmptyPreferences EXCEPT !.categories["billing"] = "junk"],
     [EmptyPreferences EXCEPT !.frequency.digest = "weekly",
                              !.frequency.max_per_day = <<500>>],
     [EmptyPreferences EXCEPT !.unsubscribed = "true"]}

GetUserPreferences ==
    \E u \in Users : \E response \in Responses(u) :
        /\ prefBudget > 0
        /\ prefBudget' = prefBudget - 1
        /\ returned' = [user |-> u,
                        record |-> getUserPreferences(defaultPreferences,
                                                      response).preferences]
        /\ UNCHANGED <<defaultPreferences, stored, submitted, prefProfile,
                       nonPreferences>>

UpdatePreferences ==
    \E u \in Users : \E updates \in UpdateInputs :
        /\ prefBudget > 0
        /\ updatePreferences(u, defaultPreferences, updates, prefProfile[u])
        /\ UNCHANGED <<returned, nonPreferences>>

\* The object a method holds after const preferences = await
\* this.getUserPreferences(userId).
Read(response) == getUserPreferences(defaultPreferences, response)

\* The rest of a method that has read the preferences (got) and changed the
\* object it holds (to preferences): the update.  When the object read is
\* this.defaultPreferences, the change was made to the defaults.
ChangeUpdate(u, got, preferences, profileNow) ==
    /\ prefBudget > 0
    /\ updatePreferences(u, IF got.alias THEN preferences ELSE defaultPreferences,
                         preferences, profileNow)
    /\ UNCHANGED <<returned, nonPreferences>>

updateChannelPreference ==
    \E u \in Users : \E response \in Responses(u) :
    \E channel \in {"email", "sms"}, enabled \in {"true", "false", "junk"} :
        LET got == Read(response)
        IN  ChangeUpdate(u, got,
                [got.preferences EXCEPT !.channels[channel] = enabled],
                prefProfile[u])

updateCategoryPreference ==
    \E u \in Users : \E response \in Responses(u) :
    \E category \in {"security", "marketing"}, enabled \in {"true", "false", "junk"} :
        LET got == Read(response)
        IN  ChangeUpdate(u, got,
                [got.preferences EXCEPT !.categories[category] = enabled],
                prefProfile[u])

\* unsubscribeAll: the profile merge, every channel off, then the update.
unsubscribeAll ==
    \E u \in Users : \E response \in Responses(u) :
        LET got == Read(response)
        IN  ChangeUpdate(u, got,
                [got.preferences EXCEPT
                    !.unsubscribed = "true",
                    !.channels = [k \in ChannelKeys |-> "false"]],
                [prefProfile[u] EXCEPT !.unsubscribed = "true"])

\* resubscribe: email and inbox on again, the profile merge, the update.
resubscribe ==
    \E u \in Users : \E response \in Responses(u) :
        LET got == Read(response)
        IN  ChangeUpdate(u, got,
                [got.preferences EXCEPT !.unsubscribed = "false",
                                        !.channels["email"] = "true",
                                        !.channels["inbox"] = "true"],
                [prefProfile[u] EXCEPT !.unsubscribed = "false"])

validFrequencies == {"realtime", "daily", "weekly", "never"}

\* The values a caller may pass as frequency.
Frequencies == validFrequencies \cup {"hourly", "undefined"}

\* configureDigest's scheduleMap: the frequencies that have a schedule.
scheduleMap == {"daily", "weekly"}

\* A method that reads the preferences and assigns the digest before it
\* tests the frequency.
setNotificationFrequencyLateCheck(u, frequency, response) ==
    LET got == Read(response)
        preferences == [got.preferences EXCEPT !.frequency.digest = frequency]
    IN  /\ prefBudget > 0
        /\ IF frequency \notin validFrequencies
           THEN /\ prefThrown' = "Invalid frequency"
                /\ prefBudget' = prefBudget - 1
                /\ defaultPreferences' =
                      IF got.alias THEN preferences ELSE defaultPreferences
                /\ UNCHANGED <<stored, submitted, prefProfile, prefDigests>>
           ELSE /\ prefThrown' = "-"
                /\ prefDigests' =
                      IF frequency \in scheduleMap
                      THEN prefDigests \cup {[user |-> u, frequency |-> frequency]}
                      ELSE prefDigests
                /\ updatePreferences(u,
                      IF got.alias THEN preferences ELSE defaultPreferences,
                      preferences, prefProfile[u])
        /\ UNCHANGED <<returned, nonFrequency>>

\* setNotificationFrequency(userId, frequency): the test of the frequency
\* and the throw; then the read, the assignment of frequency.digest to the
\* object read, configureDigest (automations.create for a frequency that
\* has a schedule) and the update.
setNotificationFrequency(u, frequency, response) ==
    LET got == Read(response)
        preferences == [got.preferences EXCEPT !.frequency.digest = frequency]
    IN  /\ prefBudget > 0
        /\ IF frequency \notin validFrequencies
           THEN /\ prefThrown' = "Invalid frequency"
                /\ prefBudget' = prefBudget - 1
                /\ UNCHANGED <<defaultPreferences, stored, submitted,
                               prefProfile, prefDigests>>
           ELSE /\ prefThrown' = "-"
                /\ prefDigests' =
                      IF frequency \in scheduleMap
                      THEN prefDigests \cup {[user |-> u, frequency |-> frequency]}
                      ELSE prefDigests
                /\ updatePreferences(u,
                      IF got.alias THEN preferences ELSE defaultPreferences,
                      preferences, prefProfile[u])
        /\ UNCHANGED <<returned, nonFrequency>>

SetNotificationFrequency ==
    \E u \in Users : \E frequency \in Frequencies : \E response \in Responses(u) :
        setNotificationFrequency(u, frequency, response)

\* The manager under reads, updates and frequency changes.
NextFrequency ==
    \/ GetUserPreferences
    \/ UpdatePreferences
    \/ SetNotificationFrequency

NextPreferences ==
    \/ GetUserPreferences
    \/ UpdatePreferences
    \/ updateChannelPreference
    \/ updateCategoryPreference
    \/ unsubscribeAll
    \/ resubscribe

-----------------------------------------------------------------------------
(* Quiet hours                                                             *)
(*                                                                         *)
(* A time of day in the configuration is the text "HH:MM", here the        *)
(* sequence of its characters.  An instant is a minute of the UTC day and  *)
(* whether daylight saving time is in force.                               *)

T2100 == <<"2", "1", ":", "0", "0">>
T0900 == <<"0", "9", ":", "0", "0">>
T0000 == <<"0", "0", ":", "0", "0">>
T1230 == <<"1", "2", ":", "3", "0">>
T2330 == <<"2", "3", ":", "3", "0">>
QuietTimes == {T2100, T0900, T0000, T1230, T2330}

Timezones == {"America/New_York", "UTC"}

\* The offset from UTC, in minutes, that the runtime's time zone data gives.
TimezoneOffset(timezone, dst) ==
    IF timezone = "America/New_York"
    THEN IF dst THEN 0 - 240 ELSE 0 - 300
    ELSE 0

\* Minutes of the UTC day at which isQuietHours is called.
UtcMinutes == {0, 120, 270, 299, 300, 839, 840, 900, 1020, 1259, 1260, 1410}
Instants == [minute : UtcMinutes, dst : BOOLEAN]

\* now.toLocaleString("en-US", {timeZone}): the wall clock of the time
\* zone, on a 12-hour dial with AM or PM.
toLocaleString(now, timezone) ==
    LET local == (now.minute + TimezoneOffset(timezone, now.dst) + 1440) % 1440
        hour == local \div 60
    IN  [hour12 |-> IF hour % 12 = 0 THEN 12 ELSE hour % 12,
         minute |-> local % 60,
         meridiem |-> IF hour < 12 THEN "AM" ELSE "PM"]

\* new Date(text) followed by getHours() and getMinutes(): the text read
\* back as a wall clock time.
getHours(text) == (text.hour12 % 12) + (IF text.meridiem = "PM" THEN 12 ELSE 0)
getMinutes(text) == text.minute

\* text.split(':'): the pieces between the colons.
RECURSIVE split(_)
split(text) ==
    IF \A i \in 1..Len(text) : text[i] # ":"
    THEN <<text>>
    ELSE LET at == CHOOSE i \in 1..Len(text) :
                      text[i] = ":" /\ \A j \in 1..(i - 1) : text[j] # ":"
         IN  <<SubSeq(text, 1, at - 1)>> \o split(SubSeq(text, at + 1, Len(text)))

DigitValue(c) ==
    CASE c = "0" -> 0 [] c = "1" -> 1 [] c = "2" -> 2 [] c = "3" -> 3
      [] c = "4" -> 4 [] c = "5" -> 5 [] c = "6" -> 6 [] c = "7" -> 7
      [] c = "8" -> 8 [] c = "9" -> 9

\* Number(text) for a text of decimal digits.
RECURSIVE Number(_)
Number(text) ==
    IF text = <<>> THEN 0
    ELSE 10 * Number(SubSeq(text, 1, Len(text) - 1)) + DigitValue(text[Len(text)])

\* The variant of isQuietHours whose window includes its end.
isQuietHoursEndInclusive(quietHoursConfig, now) ==
    IF ~quietHoursConfig.enabled THEN FALSE
    ELSE LET userTime == toLocaleString(now, quietHoursConfig.timezone)
             currentTime == getHours(userTime) * 60 + getMinutes(userTime)
             start == split(quietHoursConfig.start)
             end == split(quietHoursConfig.end)
             startTime == Number(start[1]) * 60 + Number(start[2])
             endTime == Number(end[1]) * 60 + Number(end[2])
         IN  IF startTime > endTime
             THEN currentTime >= startTime \/ currentTime <= endTime
             ELSE currentTime >= startTime /\ currentTime <= endTime

\* isQuietHours(quietHoursConfig), called at the instant now.
isQuietHours(quietHoursConfig, now) ==
    IF ~quietHoursConfig.enabled THEN FALSE
    ELSE LET userTime == toLocaleString(now, quietHoursConfig.timezone)
             currentTime == getHours(userTime) * 60 + getMinutes(userTime)
             start == split(quietHoursConfig.start)
             end == split(quietHoursConfig.end)
             startTime == Number(start[1]) * 60 + Number(start[2])
             endTime == Number(end[1]) * 60 + Number(end[2])
         IN  IF startTime > endTime
             THEN currentTime >= startTime \/ currentTime < endTime
             ELSE currentTime >= startTime /\ currentTime < endTime

QuietHoursConfigs ==
    [enabled : BOOLEAN, start : QuietTimes, end : QuietTimes,
     timezone : Timezones]

NoInstant == [minute |-> 0, dst |-> FALSE]

\* The default quiet hours, as a quietHoursConfig.
DefaultQuietHoursConfig ==
    [enabled |-> TRUE, start |-> T2100, end |-> T0900,
     timezone |-> "America/New_York"]

IdleQuietHours ==
    /\ qhConfig = [enabled |-> TRUE, start |-> T2100, end |-> T0900,
                   timezone |-> "America/New_York"]
    /\ qhNow = NoInstant
    /\ qhAnswer = <<>>
    /\ qhBudget = 0

InitQuietHours ==
    /\ qhConfig \in QuietHoursConfigs
    /\ qhNow = NoInstant
    /\ qhAnswer = <<>>
    /\ qhBudget = MaxQuietChecks

CheckQuietHours ==
    \E now \in Instants :
        /\ qhBudget > 0
        /\ qhBudget' = qhBudget - 1
        /\ qhNow' = now
        /\ qhAnswer' = <<isQuietHours(qhConfig, now)>>
        /\ UNCHANGED <<qhConfig, nonQuietHours>>

NextQuietHours == CheckQuietHours

-----------------------------------------------------------------------------
(* applyPreferences                                                        *)
(*                                                                         *)
(* A point in time is a count of minutes; the call is made on day 1, at    *)
(* minute 1440 + now.minute, so that the day before exists.                *)

Abs(now) == 1440 + now.minute

\* The zone the server's clock is set to (the TZ of the Node process).
ServerZones == {"UTC", "America/New_York"}

\* The quiet-hours objects passed to applyPreferences.
ApplyQuietHours ==
    {c \in QuietHoursConfigs : c.start \in {T2100, T0900} /\ c.end \in {T0900, T1230}}

ApplyInputs ==
    [unsubscribed : {"true", "false", "undefined"},
     quiet_hours : ApplyQuietHours,
     max_per_day : {<<>>, <<1>>, <<2>>},
     serverZone : ServerZones]

\* What the message log holds for the recipient: how many messages were
\* logged a minute before the call and how many 25 hours before it.
LogAges == {1, 1500}
Logs == [LogAges -> 0..MaxLogged]

\* The count of a JavaScript value in a condition.
Truthy(v) == v = "true"

\* getNextAvailableTime(quietHoursConfig): new Date(), setHours(endHour,
\* endMinute, 0, 0) on the server's own clock, a day later if that is in
\* the past.  The result is a point in time.
getNextAvailableTime(quietHoursConfig, now, serverZone) ==
    LET end == split(quietHoursConfig.end)
        offset == TimezoneOffset(serverZone, now.dst)
        local == Abs(now) + offset
        nextAvailable == (local \div 1440) * 1440
                         + Number(end[1]) * 60 + Number(end[2])
    IN  (IF nextAvailable < local THEN nextAvailable + 1440 ELSE nextAvailable)
        - offset

\* getTodayMessageCount(userId): logs.list from today.setHours(0, 0, 0, 0)
\* of the server's clock, and the length of the result.
RECURSIVE SumOver(_, _)
SumOver(f, S) ==
    IF S = {} THEN 0
    ELSE LET x == CHOOSE y \in S : TRUE IN f[x] + SumOver(f, S \ {x})

getTodayMessageCount(log, now, serverZone) ==
    LET offset == TimezoneOffset(serverZone, now.dst)
        today == ((Abs(now) + offset) \div 1440) * 1440 - offset
    IN  SumOver(log, {age \in LogAges : Abs(now) - age >= today})

NoLog == [age \in LogAges |-> 0]
NoResult == [send |-> "-", reason |-> "-", reschedule |-> 0]
Result(send, reason, reschedule) ==
    [send |-> send, reason |-> reason, reschedule |-> reschedule]

IdleApply ==
    /\ apInput = [unsubscribed |-> "false",
                  quiet_hours |-> DefaultQuietHoursConfig,
                  max_per_day |-> <<>>, serverZone |-> "UTC"]
    /\ apNow = NoInstant
    /\ apPc = "off"
    /\ apResult = NoResult
    /\ apTrace = [quiet |-> FALSE, logs |-> FALSE, log |-> NoLog]

InitApply ==
    /\ apInput \in ApplyInputs
    /\ apNow = NoInstant
    /\ apPc = "idle"
    /\ apResult = NoResult
    /\ apTrace = [quiet |-> FALSE, logs |-> FALSE, log |-> NoLog]

\* The variant of applyPreferences that looks at quiet hours first.
applyPreferencesQuietHoursFirst(preferences, now, serverZone) ==
    IF isQuietHours(preferences.quiet_hours, now)
    THEN [pc |-> "done", quiet |-> TRUE,
          result |-> Result("false", "quiet_hours",
                            getNextAvailableTime(preferences.quiet_hours, now,
                                                 serverZone))]
    ELSE IF Truthy(preferences.unsubscribed)
    THEN [pc |-> "done", quiet |-> TRUE,
          result |-> Result("false", "user_unsubscribed", 0)]
    ELSE [pc |-> "count", quiet |-> TRUE, result |-> NoResult]

\* applyPreferences(userId, preferences) up to its await: the result if it
\* returns before, and whether isQuietHours was called.
applyPreferences(preferences, now, serverZone) ==
    IF Truthy(preferences.unsubscribed)
    THEN [pc |-> "done", quiet |-> FALSE,
          result |-> Result("false", "user_unsubscribed", 0)]
    ELSE IF isQuietHours(preferences.quiet_hours, now)
    THEN [pc |-> "done", quiet |-> TRUE,
          result |-> Result("false", "quiet_hours",
                            getNextAvailableTime(preferences.quiet_hours, now,
                                                 serverZone))]
    ELSE [pc |-> "count", quiet |-> TRUE, result |-> NoResult]

\* The variant of the daily limit that lets one message more through.
dailyLimitExclusive(todayCount, max_per_day) ==
    IF max_per_day # <<>> /\ todayCount > max_per_day[1]
    THEN Result("false", "daily_limit_reached", 0)
    ELSE Result("true", "-", 0)

\* applyPreferences after the count: todayCount >= max_per_day, which is
\* false when max_per_day is not there.
dailyLimit(todayCount, max_per_day) ==
    IF max_per_day # <<>> /\ todayCount >= max_per_day[1]
    THEN Result("false", "daily_limit_reached", 0)
    ELSE Result("true", "-", 0)

ApplyPreferencesCalled ==
    \E now \in Instants :
        /\ apPc = "idle"
        /\ LET r == applyPreferences(apInput, now, apInput.serverZone)
           IN  /\ apPc' = r.pc
               /\ apResult' = r.result
               /\ apTrace' = [quiet |-> r.quiet, logs |-> r.pc = "count",
                               log |-> NoLog]
        /\ apNow' = now
        /\ UNCHANGED <<apInput, nonApply>>

\* courier.logs.list answers with the recipient's log.
LogsListAnswers ==
    \E log \in Logs :
        /\ apPc = "count"
        /\ apPc' = "done"
        /\ apResult' = dailyLimit(getTodayMessageCount(log, apNow, apInput.serverZone),
                                  apInput.max_per_day)
        /\ apTrace' = [apTrace EXCEPT !.log = log]
        /\ UNCHANGED <<apInput, apNow, nonApply>>

\* courier.logs.list rejects, and so does applyPreferences.
LogsListFails ==
    /\ apPc = "count"
    /\ apPc' = "done"
    /\ apResult' = Result("throws", "-", 0)
    /\ UNCHANGED <<apInput, apNow, apTrace, nonApply>>

NextApply ==
    \/ ApplyPreferencesCalled
    \/ LogsListAnswers
    \/ LogsListFails

-----------------------------------------------------------------------------
(* Routing                                                                 *)
(*                                                                         *)
(* The repository holds the messages it passes to courier.send; the router *)
(* that serves them is the platform's.  The router here follows the        *)
(* routing contract: under method "single" the channels are tried in the   *)
(* declared order, one attempt active at a time, a failure or a timeout    *)
(* moves on to the next channel and a success ends the pass.               *)

RoutedChannels == {"email", "sms", "push", "inbox"}

\* The message of testChannelFailover, in the channel order the README's
\* routing example declares.
FailoverMessageReadmeOrder ==
    [template |-> "critical-notification", method |-> "single",
     channels |-> <<"email", "push", "sms">>]

\* The message testChannelFailover sends.
FailoverMessage ==
    [template |-> "critical-notification", method |-> "single",
     channels |-> <<"email", "sms", "push">>]

\* The message of the README's failover example.
OnboardingTaskMessage ==
    [template |-> "onboarding-task", method |-> "single",
     channels |-> <<"email", "inbox", "sms">>]

RoutedMessages == {FailoverMessage, OnboardingTaskMessage}

\* What a channel's provider does with an attempt: delivers, rejects, or
\* never answers within the channel's timeout.
Faults == {"ok", "fail", "timeout"}

Attempt(channel, status) == [channel |-> channel, status |-> status]

IdleRouting ==
    /\ rtRequest = FailoverMessage
    /\ rtFaults = [c \in RoutedChannels |-> "ok"]
    /\ rtHistory = <<>>

InitRouting ==
    /\ rtRequest \in RoutedMessages
    /\ rtFaults \in [RoutedChannels -> Faults]
    /\ rtHistory = <<>>

LastAttempt == rtHistory[Len(rtHistory)]

\* The attempt on the next declared channel starts: there is none before
\* it, or the one before it failed or timed out.
RouteNext ==
    /\ rtRequest.method = "single"
    /\ Len(rtHistory) < Len(rtRequest.channels)
    /\ rtHistory # <<>> => LastAttempt.status \in {"failed", "timed_out"}
    /\ rtHistory' = Append(rtHistory,
                           Attempt(rtRequest.channels[Len(rtHistory) + 1], "active"))
    /\ UNCHANGED <<rtRequest, rtFaults, nonRouting>>

AttemptEnds(fault, status) ==
    /\ rtHistory # <<>>
    /\ LastAttempt.status = "active"
    /\ rtFaults[LastAttempt.channel] = fault
    /\ rtHistory' = [rtHistory EXCEPT ![Len(rtHistory)].status = status]
    /\ UNCHANGED <<rtRequest, rtFaults, nonRouting>>

AttemptSucceeds == AttemptEnds("ok", "success")
AttemptFails == AttemptEnds("fail", "failed")
AttemptTimesOut == AttemptEnds("timeout", "timed_out")

NextRouting ==
    \/ RouteNext
    \/ AttemptSucceeds
    \/ AttemptFails
    \/ AttemptTimesOut

-----------------------------------------------------------------------------
(* Automations                                                             *)
(*                                                                         *)
(* The repository holds the flow definitions; the runner that executes     *)
(* them is the platform's.  The runner here follows the automation         *)
(* contract: a run executes its steps in the declared order, a wait        *)
(* suspends it, and a condition is evaluated when the run reaches it,      *)
(* against the profile as it is then.                                      *)

Recipients == {"u1", "u2"}

NoCondition == [field |-> "", test |-> ""]

Step(action, template, channels, duration, cond, then, else) ==
    [action |-> action, template |-> template, channels |-> channels,
     duration |-> duration, if |-> cond, then |-> then, else |-> else]

SendStep(template, channels) ==
    Step("send", template, channels, "", NoCondition, <<>>, <<>>)
EscalateStep(template, channels) ==
    Step("escalate", template, channels, "", NoCondition, <<>>, <<>>)
WaitStep(duration) == Step("wait", "", <<>>, duration, NoCondition, <<>>, <<>>)
ConditionStep(field, test, then, else) ==
    Step("condition", "", <<>>, "", [field |-> field, test |-> test], then, else)

\* The branches of welcomeFlowAutomation's condition on last_login.
welcomeLoggedIn ==
    <<SendStep("setup-guide", <<"email", "inbox">>),
      WaitStep("48 hours"),
      ConditionStep("project_created", "equals_true",
          <<SendStep("advanced-features", <<"email">>)>>,
          <<SendStep("project-creation-guide", <<"email", "push">>)>>)>>

welcomeNotLoggedIn ==
    <<SendStep("login-reminder", <<"email">>),
      WaitStep("48 hours"),
      EscalateStep("dormant-user-alert", <<"slack">>)>>

\* The welcome flow with its condition ahead of its wait.
welcomeFlowConditionFirst ==
    <<SendStep("welcome-email", <<"email">>),
      ConditionStep("last_login", "exists", welcomeLoggedIn, welcomeNotLoggedIn),
      WaitStep("24 hours")>>

\* welcomeFlowAutomation.steps
welcomeFlowAutomation ==
    <<SendStep("welcome-email", <<"email">>),
      WaitStep("24 hours"),
      ConditionStep("last_login", "exists", welcomeLoggedIn, welcomeNotLoggedIn)>>

StopStep == Step("stop", "", <<>>, "", NoCondition, <<>>, <<>>)

\* postActivationFlow.steps with its first two sends exchanged.
postActivationFlowTipsFirst ==
    <<SendStep("pro-tips", <<"email">>),
      WaitStep("3 days"),
      SendStep("congrats-first-project", <<"email", "inbox">>),
      WaitStep("7 days"),
      ConditionStep("team_size", "greater_than_1",
          <<SendStep("team-collaboration-guide", <<"email">>)>>,
          <<SendStep("invite-team-benefits", <<"email">>)>>)>>

\* postActivationFlow.steps
postActivationFlow ==
    <<SendStep("congrats-first-project", <<"email", "inbox">>),
      WaitStep("3 days"),
      SendStep("pro-tips", <<"email">>),
      WaitStep("7 days"),
      ConditionStep("team_size", "greater_than_1",
          <<SendStep("team-collaboration-guide", <<"email">>)>>,
          <<SendStep("invite-team-benefits", <<"email">>)>>)>>

\* reEngagementFlow.steps
reEngagementFlow ==
    <<SendStep("we-miss-you", <<"email">>),
      WaitStep("3 days"),
      ConditionStep("last_login", "date_greater_than_3_days_ago",
          <<StopStep>>,
          <<SendStep("special-offer", <<"email", "sms">>),
            WaitStep("7 days"),
            SendStep("final-reminder", <<"email">>)>>)>>

FlowIds == {"onboarding-welcome-flow", "post-activation-flow",
            "re-engagement-flow"}

\* The steps registered under an automation_id.
FlowSteps(id) ==
    CASE id = "onboarding-welcome-flow" -> welcomeFlowAutomation
      [] id = "post-activation-flow" -> postActivationFlow
      [] id = "re-engagement-flow" -> reEngagementFlow

\* The if of a condition step, on a profile that records whether last_login
\* is there (last_login), whether it is within the last three days
\* (recent), whether project_created is true and whether team_size is
\* greater than 1 (team).
ConditionHolds(cond, p) ==
    CASE cond.field = "last_login" /\ cond.test = "exists" -> p.last_login
      [] cond.field = "last_login" /\ cond.test # "exists" -> p.recent
      [] cond.field = "project_created" -> p.project_created
      [] cond.field = "team_size" -> p.team

\* The runner takes the steps in order until a wait or the end of the list:
\* what was sent or escalated, in order, and the steps left after the wait.
RECURSIVE RunUntilWait(_, _, _)
RunUntilWait(steps, p, log) ==
    IF steps = <<>>
    THEN [status |-> "completed", todo |-> <<>>, log |-> log]
    ELSE LET step == Head(steps)
         IN  CASE step.action = "wait" ->
                    [status |-> "waiting", todo |-> Tail(steps), log |-> log]
               [] step.action = "stop" ->
                    [status |-> "stopped", todo |-> <<>>, log |-> log]
               [] step.action = "condition" ->
                    RunUntilWait((IF ConditionHolds(step.if, p)
                                  THEN step.then ELSE step.else) \o Tail(steps),
                                 p, log)
               [] OTHER ->
                    RunUntilWait(Tail(steps), p, Append(log, step.template))

FlowProfiles ==
    {p \in [last_login : BOOLEAN, recent : BOOLEAN, project_created : BOOLEAN,
            team : BOOLEAN] : p.recent => p.last_login}

\* The profiles of recipients who have just signed up: no team yet, and a
\* login, if any, fresh.
AutoProfiles == {p \in FlowProfiles : ~p.team /\ p.recent = p.last_login}
NoRun == [status |-> "idle", todo |-> <<>>, log |-> <<>>]

IdleAutomation ==
    /\ autoProfile = [r \in Recipients |->
                        [last_login |-> FALSE, recent |-> FALSE,
                         project_created |-> FALSE, team |-> FALSE]]
    /\ autoFlow = [r \in Recipients |-> "onboarding-welcome-flow"]
    /\ autoRun = [r \in Recipients |-> NoRun]
    /\ autoInvokedWith = [r \in Recipients |-> <<>>]
    /\ autoResumedWith = [r \in Recipients |-> <<>>]

InitAutomation ==
    /\ autoProfile \in [Recipients -> AutoProfiles]
    /\ autoFlow = [r \in Recipients |-> "onboarding-welcome-flow"]
    /\ autoRun = [r \in Recipients |-> NoRun]
    /\ autoInvokedWith = [r \in Recipients |-> <<>>]
    /\ autoResumedWith = [r \in Recipients |-> <<>>]

\* automations.invoke of recipient r's flow.
InvokeAutomation ==
    \E r \in Recipients :
        /\ autoRun[r].status = "idle"
        /\ autoRun' = [autoRun EXCEPT
                         ![r] = RunUntilWait(FlowSteps(autoFlow[r]), autoProfile[r],
                                             <<>>)]
        /\ autoInvokedWith' = [autoInvokedWith EXCEPT ![r] = <<autoProfile[r]>>]
        /\ UNCHANGED <<autoProfile, autoFlow, autoResumedWith, nonAutomation>>

\* The wait of r's run elapses and the run resumes.
WaitElapses ==
    \E r \in Recipients :
        /\ autoRun[r].status = "waiting"
        /\ autoRun' = [autoRun EXCEPT
                         ![r] = RunUntilWait(autoRun[r].todo, autoProfile[r],
                                             autoRun[r].log)]
        /\ autoResumedWith' = [autoResumedWith EXCEPT
                                 ![r] = Append(autoResumedWith[r], autoProfile[r])]
        /\ UNCHANGED <<autoProfile, autoFlow, autoInvokedWith, nonAutomation>>

\* The recipient logs in: the application sets last_login.
RecipientLogsIn ==
    \E r \in Recipients :
        /\ ~autoProfile[r].recent
        /\ autoProfile' = [autoProfile EXCEPT ![r].last_login = TRUE,
                                              ![r].recent = TRUE]
        /\ UNCHANGED <<autoFlow, autoRun, autoInvokedWith, autoResumedWith,
                       nonAutomation>>

\* The recipient creates a project.
RecipientCreatesProject ==
    \E r \in Recipients :
        /\ autoProfile[r].last_login
        /\ ~autoProfile[r].project_created
        /\ autoProfile' = [autoProfile EXCEPT ![r].project_created = TRUE]
        /\ UNCHANGED <<autoFlow, autoRun, autoInvokedWith, autoResumedWith,
                       nonAutomation>>

\* The changes of a profile that a waiting run's later conditions read.
\* The recipient creates a project while the welcome run waits.
ProjectCreatedMeanwhile ==
    \E r \in Recipients :
        /\ autoFlow[r] = "onboarding-welcome-flow"
        /\ autoRun[r].status = "waiting"
        /\ autoProfile[r].last_login
        /\ ~autoProfile[r].project_created
        /\ autoProfile' = [autoProfile EXCEPT ![r].project_created = TRUE]
        /\ UNCHANGED <<autoFlow, autoRun, autoInvokedWith, autoResumedWith,
                       nonAutomation>>

\* Three days pass since the recipient's last login, while the
\* re-engagement run waits.
LoginAges ==
    \E r \in Recipients :
        /\ autoFlow[r] = "re-engagement-flow"
        /\ autoRun[r].status = "waiting"
        /\ autoProfile[r].recent
        /\ autoProfile' = [autoProfile EXCEPT ![r].recent = FALSE]
        /\ UNCHANGED <<autoFlow, autoRun, autoInvokedWith, autoResumedWith,
                       nonAutomation>>

\* The recipient's team grows beyond one member, while the post-activation
\* run waits.
TeamGrows ==
    \E r \in Recipients :
        /\ autoFlow[r] = "post-activation-flow"
        /\ autoRun[r].status = "waiting"
        /\ ~autoProfile[r].team
        /\ autoProfile' = [autoProfile EXCEPT ![r].team = TRUE]
        /\ UNCHANGED <<autoFlow, autoRun, autoInvokedWith, autoResumedWith,
                       nonAutomation>>

\* Runs of any of the three flows, for recipients who have or have not
\* logged in; the rest of a profile changes while the run goes on.
InitFlows ==
    /\ autoProfile \in [Recipients -> {p \in AutoProfiles : ~p.project_created}]
    /\ autoFlow \in [Recipients -> FlowIds]
    /\ autoRun = [r \in Recipients |-> NoRun]
    /\ autoInvokedWith = [r \in Recipients |-> <<>>]
    /\ autoResumedWith = [r \in Recipients |-> <<>>]

NextFlows ==
    \/ InvokeAutomation
    \/ WaitElapses
    \/ RecipientLogsIn
    \/ ProjectCreatedMeanwhile
    \/ LoginAges
    \/ TeamGrows

NextAutomation ==
    \/ InvokeAutomation
    \/ WaitElapses
    \/ RecipientLogsIn
    \/ RecipientCreatesProject

-----------------------------------------------------------------------------
(* Tenant notifications (MultiTenantOnboarding)                            *)

\* Tenants that have an entry in this.tenantConfigs (two of the four).
ConfiguredTenants == {"enterprise", "startup"}

\* Names every object inherits from Object.prototype.
ObjectPrototypeKeys == {"constructor"}

\* The tenant ids a caller may pass.
TenantIds == ConfiguredTenants \cup ObjectPrototypeKeys \cup {"acme"}

\* this.tenantConfigs[tenantId]: the tenant's configuration, a member that
\* the object literal inherits (a function: truthy, without branding), or
\* undefined.
TenantConfig(tenantId) ==
    CASE tenantId \in ConfiguredTenants -> "config"
      [] tenantId \in ObjectPrototypeKeys -> "inherited"
      [] OTHER -> "undefined"

NoOutcome == [tenant |-> "-", result |-> "-"]

IdleTenant ==
    /\ tnBrandId = [t \in ConfiguredTenants |-> 0]
    /\ tnProcs = EmptyBag
    /\ tnCreated = [t \in ConfiguredTenants |-> [called |-> 0, failed |-> 0]]
    /\ tnSent = EmptyBag
    /\ tnOutcome = NoOutcome
    /\ tnBudget = 0

InitTenant ==
    /\ tnBrandId = [t \in ConfiguredTenants |-> 0]
    /\ tnProcs = EmptyBag
    /\ tnCreated = [t \in ConfiguredTenants |-> [called |-> 0, failed |-> 0]]
    /\ tnSent = EmptyBag
    /\ tnOutcome = NoOutcome
    /\ tnBudget = MaxTenantSends

\* courier.send of sendTenantNotification, with the brand it names.
TenantMessage(tenantId, brand) == [tenant |-> tenantId, brand |-> brand]

\* sendTenantNotification(userId, tenantId, notification) to its first
\* await that leaves the process: the lookup and the throw, then
\* getOrCreateBrand, which answers from branding.brand_id or calls
\* brands.create (createTenantBrand), and, with a cached brand, courier.send.
sendTenantNotification ==
    \E tenantId \in TenantIds :
        /\ tnBudget > 0
        /\ tnBudget' = tnBudget - 1
        /\ CASE TenantConfig(tenantId) = "undefined" ->
                  /\ tnOutcome' = [tenant |-> tenantId, result |-> "Unknown tenant"]
                  /\ UNCHANGED <<tnBrandId, tnProcs, tnCreated, tnSent>>
             [] TenantConfig(tenantId) = "inherited" ->
                  \* config.branding is undefined: reading brand_id throws
                  /\ tnOutcome' = [tenant |-> tenantId, result |-> "TypeError"]
                  /\ UNCHANGED <<tnBrandId, tnProcs, tnCreated, tnSent>>
             [] TenantConfig(tenantId) = "config" /\ tnBrandId[tenantId] # 0 ->
                  /\ tnSent' = Put(tnSent, TenantMessage(tenantId, tnBrandId[tenantId]))
                  /\ tnProcs' = Put(tnProcs, [tenant |-> tenantId, pc |-> "sending",
                                              brand |-> tnBrandId[tenantId]])
                  /\ UNCHANGED <<tnBrandId, tnCreated, tnOutcome>>
             [] OTHER ->
                  /\ tnCreated' = [tnCreated EXCEPT ![tenantId].called = @ + 1]
                  /\ tnProcs' = Put(tnProcs,
                        [tenant |-> tenantId, pc |-> "creating",
                         brand |-> tnCreated[tenantId].called + 1])
                  /\ UNCHANGED <<tnBrandId, tnSent, tnOutcome>>
        /\ UNCHANGED nonTenant

\* brands.create answers with a new brand: createTenantBrand caches its id
\* and sendTenantNotification goes on to courier.send.
BrandsCreateAnswers ==
    \E p \in BagToSet(tnProcs) :
        /\ p.pc = "creating"
        /\ tnBrandId' = [tnBrandId EXCEPT ![p.tenant] = p.brand]
        /\ tnSent' = Put(tnSent, TenantMessage(p.tenant, p.brand))
        /\ tnProcs' = Put(Take(tnProcs, p), [p EXCEPT !.pc = "sending"])
        /\ UNCHANGED <<tnCreated, tnOutcome, tnBudget, nonTenant>>

\* brands.create rejects: the call rejects, nothing is cached.
BrandsCreateFails ==
    \E p \in BagToSet(tnProcs) :
        /\ p.pc = "creating"
        /\ tnCreated' = [tnCreated EXCEPT ![p.tenant].failed = @ + 1]
        /\ tnProcs' = Take(tnProcs, p)
        /\ tnOutcome' = [tenant |-> p.tenant, result |-> "rejected"]
        /\ UNCHANGED <<tnBrandId, tnSent, tnBudget, nonTenant>>

\* courier.send settles and the call ends with it.
TenantSendSettles ==
    \E p \in BagToSet(tnProcs) : \E result \in {"sent", "rejected"} :
        /\ p.pc = "sending"
        /\ tnProcs' = Take(tnProcs, p)
        /\ tnOutcome' = [tenant |-> p.tenant, result |-> result]
        /\ UNCHANGED <<tnBrandId, tnCreated, tnSent, tnBudget, nonTenant>>

NextTenant ==
    \/ sendTenantNotification
    \/ BrandsCreateAnswers
    \/ BrandsCreateFails
    \/ TenantSendSettles

-----------------------------------------------------------------------------
(* Onboarding tasks (createOnboardingTasks)                                *)

Task(id, priority) == [id |-> id, priority |-> priority]

baseTasks ==
    <<Task("complete-profile", 1), Task("invite-team", 2),
      Task("create-project", 3), Task("connect-integration", 4),
      Task("customize-workspace", 5)>>

\* The plans planSpecificTasks has a list for.
SpecificPlans == {"enterprise", "startup", "trial"}

\* The values a caller may pass as userPlan: the plans with a list, a plan
\* without one, no plan, and a name every object inherits.
UserPlans == SpecificPlans \cup {"free", "undefined", "constructor"}

\* planSpecificTasks[userPlan] || []: the plan's list, the empty list for
\* undefined, and "not iterable" for an inherited member, a function, which
\* the spread cannot take.
planSpecificTasks(userPlan) ==
    CASE userPlan = "enterprise" ->
            <<Task("schedule-onboarding", 0), Task("setup-sso", 1),
              Task("review-compliance", 2)>>
      [] userPlan = "startup" ->
            <<Task("join-community", 6), Task("explore-templates", 7)>>
      [] userPlan = "trial" ->
            <<Task("watch-demo", 0), Task("explore-pricing", 8)>>
      [] userPlan \in ObjectPrototypeKeys -> "not iterable"
      [] OTHER -> <<>>

\* tasks.sort((a, b) => a.priority - b.priority): a stable sort.
RECURSIVE InsertByPriority(_, _)
InsertByPriority(task, sorted) ==
    IF sorted = <<>> THEN <<task>>
    ELSE IF sorted[Len(sorted)].priority <= task.priority
         THEN Append(sorted, task)
         ELSE Append(InsertByPriority(task, SubSeq(sorted, 1, Len(sorted) - 1)),
                     sorted[Len(sorted)])

RECURSIVE SortByPriority(_)
SortByPriority(tasks) ==
    IF tasks = <<>> THEN <<>>
    ELSE InsertByPriority(tasks[Len(tasks)],
                          SortByPriority(SubSeq(tasks, 1, Len(tasks) - 1)))

NoTaskRun ==
    [pc |-> "off", plan |-> "-", tasks |-> <<>>, sent |-> <<>>,
     returned |-> <<>>, error |-> "-"]

IdleTasks == tkRun = [u \in Users |-> NoTaskRun]

InitTasks == tkRun = [u \in Users |-> NoTaskRun]

\* createOnboardingTasks(courier, userId, userPlan) to its first await: the
\* list is built and sorted and the first courier.send is called.
createOnboardingTasks ==
    \E u \in Users : \E userPlan \in UserPlans :
        /\ tkRun[u].pc = "off"
        /\ LET specific == planSpecificTasks(userPlan)
           IN  tkRun' = [tkRun EXCEPT ![u] =
                 IF specific = "not iterable"
                 THEN [NoTaskRun EXCEPT !.pc = "failed", !.plan = userPlan,
                                        !.error = "TypeError"]
                 ELSE [NoTaskRun EXCEPT
                          !.pc = "sending", !.plan = userPlan,
                          !.tasks = SortByPriority(baseTasks \o specific)]]
        /\ UNCHANGED nonTasks

\* The courier.send in progress answers: the loop calls the next one, or
\* the function returns tasks.
TaskSendAnswers ==
    \E u \in Users :
        /\ tkRun[u].pc = "sending"
        /\ LET run == tkRun[u]
               sent == Append(run.sent, run.tasks[Len(run.sent) + 1])
           IN  tkRun' = [tkRun EXCEPT ![u] =
                 IF Len(sent) = Len(run.tasks)
                 THEN [run EXCEPT !.sent = sent, !.pc = "returned",
                                  !.returned = run.tasks]
                 ELSE [run EXCEPT !.sent = sent]]
        /\ UNCHANGED nonTasks

\* The courier.send in progress rejects: the function rejects.
TaskSendFails ==
    \E u \in Users :
        /\ tkRun[u].pc = "sending"
        /\ tkRun' = [tkRun EXCEPT ![u].pc = "failed",
                                  ![u].error = "send rejected"]
        /\ UNCHANGED nonTasks

NextTasks ==
    \/ createOnboardingTasks
    \/ TaskSendAnswers
    \/ TaskSendFails

-----------------------------------------------------------------------------
(* Specifications: one per component, the other components idle           *)

IdleWebhook ==
    /\ profile = InitProfile(FALSE)
    /\ timers = EmptyBag
    /\ procs = EmptyBag
    /\ calls = EmptyBag
    /\ resp = NoResponse
    /\ budget = 0
    /\ seen = {}

\* The webhook endpoint under every event type and signature.
InitSpecWebhook ==
    /\ InitWebhook(MaxEvents)
    /\ IdleTasks
    /\ IdleTenant
    /\ IdleEscalation /\ IdlePreferences /\ IdleQuietHours /\ IdleApply
    /\ IdleRouting /\ IdleAutomation
SpecWebhook == InitSpecWebhook /\ [][NextWebhook]_vars

\* The webhook endpoint under correctly signed bounce events alone.
InitSpecRetry ==
    /\ InitWebhook(MaxUndeliverable)
    /\ IdleTasks
    /\ IdleTenant
    /\ IdleEscalation /\ IdlePreferences /\ IdleQuietHours /\ IdleApply
    /\ IdleRouting /\ IdleAutomation
SpecRetry == InitSpecRetry /\ [][NextRetry]_vars

\* The webhook endpoint under events with and without a handler.
InitSpecDispatch ==
    /\ InitWebhook(MaxDispatched)
    /\ IdleTasks
    /\ IdleTenant
    /\ IdleEscalation /\ IdlePreferences /\ IdleQuietHours /\ IdleApply
    /\ IdleRouting /\ IdleAutomation
SpecDispatch == InitSpecDispatch /\ [][NextDispatch]_vars

\* The webhook endpoint under correctly signed events.  A handler that is
\* suspended at an await goes on when the platform call settles.
InitSpecAnswered ==
    /\ InitWebhook(MaxDispatched)
    /\ IdleTasks
    /\ IdleTenant
    /\ IdleEscalation /\ IdlePreferences /\ IdleQuietHours /\ IdleApply
    /\ IdleRouting /\ IdleAutomation
SpecAnswered ==
    /\ InitSpecAnswered
    /\ [][NextAnswered]_vars
    /\ WF_vars(handleMessageDelivered)
    /\ WF_vars(handleMessageOpened)
    /\ WF_vars(handleMessageClicked)
    /\ WF_vars(handleAutomationCompleted)
    /\ WF_vars(handleAutomationFailed)

\* The webhook endpoint under message:sent events.
InitSpecSent ==
    /\ InitWebhook(MaxSentEvents)
    /\ IdleTasks
    /\ IdleTenant
    /\ IdleEscalation /\ IdlePreferences /\ IdleQuietHours /\ IdleApply
    /\ IdleRouting /\ IdleAutomation
SpecSent == InitSpecSent /\ [][NextSent]_vars

\* sendTenantNotification calls for configured and other tenant ids, which
\* may overlap.
InitSpecTenant ==
    /\ InitTenant
    /\ IdleTasks
    /\ IdleWebhook /\ IdleEscalation /\ IdlePreferences /\ IdleQuietHours
    /\ IdleApply /\ IdleRouting /\ IdleAutomation
SpecTenant == InitSpecTenant /\ [][NextTenant]_vars

\* The preference manager under reads, updates and frequency changes.
InitSpecFrequency ==
    /\ InitPreferences
    /\ IdleTasks
    /\ IdleTenant
    /\ IdleWebhook /\ IdleEscalation /\ IdleQuietHours /\ IdleApply
    /\ IdleRouting /\ IdleAutomation
SpecFrequency == InitSpecFrequency /\ [][NextFrequency]_vars

\* One createOnboardingTasks call for each user, for every plan value.
InitSpecTasks ==
    /\ InitTasks
    /\ IdleTenant
    /\ IdleWebhook /\ IdleEscalation /\ IdlePreferences /\ IdleQuietHours
    /\ IdleApply /\ IdleRouting /\ IdleAutomation
SpecTasks == InitSpecTasks /\ [][NextTasks]_vars

\* The webhook endpoint under events that schedule delayed work, in a
\* process that may be restarted.  A timer that stays set runs its callback,
\* and a handler or callback in progress goes on.
InitSpecRestart ==
    /\ InitWebhook(MaxDelayedEvents)
    /\ IdleTasks
    /\ IdleTenant
    /\ IdleEscalation /\ IdlePreferences /\ IdleQuietHours /\ IdleApply
    /\ IdleRouting /\ IdleAutomation
SpecRestart ==
    /\ InitSpecRestart
    /\ [][NextRestart]_vars
    /\ WF_vars(RetryTimerFires)
    /\ WF_vars(FollowUpTimerFires)
    /\ WF_vars(RetryCountMerge)
    /\ WF_vars(handleMessageOpened)
    /\ WF_vars(handleMessageUndeliverable)

\* checkAndEscalate calls one after the other, as scheduleEscalationChecks
\* makes them.
InitSpecEscalation ==
    /\ InitEscalation(1)
    /\ IdleTasks
    /\ IdleTenant
    /\ IdleWebhook /\ IdlePreferences /\ IdleQuietHours /\ IdleApply
    /\ IdleRouting /\ IdleAutomation
SpecEscalation == InitSpecEscalation /\ [][NextEscalation]_vars

\* checkAndEscalate calls that may overlap: a second scheduler run, or a
\* second instance, starts a check while one is in progress.
InitSpecEscalationOverlap ==
    /\ InitEscalation(2)
    /\ IdleTasks
    /\ IdleTenant
    /\ IdleWebhook /\ IdlePreferences /\ IdleQuietHours /\ IdleApply
    /\ IdleRouting /\ IdleAutomation
SpecEscalationOverlap == InitSpecEscalationOverlap /\ [][NextEscalation]_vars

\* The preferences manager, one operation after the other.
InitSpecPreferences ==
    /\ InitPreferences
    /\ IdleTasks
    /\ IdleTenant
    /\ IdleWebhook /\ IdleEscalation /\ IdleQuietHours /\ IdleApply
    /\ IdleRouting /\ IdleAutomation
SpecPreferences == InitSpecPreferences /\ [][NextPreferences]_vars

\* isQuietHours, called at some instants with one configuration.
InitSpecQuietHours ==
    /\ InitQuietHours
    /\ IdleTasks
    /\ IdleTenant
    /\ IdleWebhook /\ IdleEscalation /\ IdlePreferences /\ IdleApply
    /\ IdleRouting /\ IdleAutomation
SpecQuietHours == InitSpecQuietHours /\ [][NextQuietHours]_vars

\* One applyPreferences call, for every record, instant and server zone.
InitSpecApply ==
    /\ InitApply
    /\ IdleTasks
    /\ IdleTenant
    /\ IdleWebhook /\ IdleEscalation /\ IdlePreferences /\ IdleQuietHours
    /\ IdleRouting /\ IdleAutomation
SpecApply == InitSpecApply /\ [][NextApply]_vars

\* One send request routed under every combination of channel faults.
InitSpecRouting ==
    /\ InitRouting
    /\ IdleTasks
    /\ IdleTenant
    /\ IdleWebhook /\ IdleEscalation /\ IdlePreferences /\ IdleQuietHours /\ IdleApply
    /\ IdleAutomation
SpecRouting == InitSpecRouting /\ [][NextRouting]_vars

\* One run of the welcome flow per recipient, the recipients active
\* meanwhile.
InitSpecAutomation ==
    /\ InitAutomation
    /\ IdleTasks
    /\ IdleTenant
    /\ IdleWebhook /\ IdleEscalation /\ IdlePreferences /\ IdleQuietHours /\ IdleApply
    /\ IdleRouting
SpecAutomation == InitSpecAutomation /\ [][NextAutomation]_vars

\* Runs of the three flows; an invocation that was requested is made and a
\* wait that is running elapses.
InitSpecFlows ==
    /\ InitFlows
    /\ IdleTasks
    /\ IdleTenant
    /\ IdleWebhook /\ IdleEscalation /\ IdlePreferences /\ IdleQuietHours /\ IdleApply
    /\ IdleRouting
SpecFlows ==
    /\ InitSpecFlows
    /\ [][NextFlows]_vars
    /\ WF_vars(InvokeAutomation)
    /\ WF_vars(WaitElapses)

-----------------------------------------------------------------------------
(* Claims about the webhook handler                                        *)

\* C1: a request whose signature header is not the HMAC-SHA256 hex digest of
\* its payload under the shared secret is answered 401, whatever the header
\* holds (also when it is absent), and no event handler runs for it.
C1_BadSignatureAnswered401 ==
    /\ ~resp.sigValid => resp.status = "401"
    /\ \A p \in BagToSet(procs) : p.sigValid

\* Only correctly signed requests reach a handler (the part of C1 the code
\* keeps); reached with a handler suspended.
C1_HandlerRunning ==
    \E p \in BagToSet(procs) : p.kind = "req" /\ p.pc # "start"

\* The calls of courier.messages.retry for message m.
RetryCalls(m) ==
    CountIn(calls, {c \in BagToSet(calls) : c.api = "retry" /\ c.arg = m})

\* C2: over every sequence and interleaving of message:undeliverable events
\* a message is retried at most as often as the backoff sequence is long,
\* and never because of a hard_bounce or an invalid_email.
C2_RetriesBounded ==
    /\ \A m \in Messages : RetryCalls(m) <= RetryDelaysLength
    /\ \A c \in BagToSet(calls) :
          c.api = "retry" => c.cause.reason \in {"soft_bounce", "temporary_failure"}

\* C4: a replayed event counts nothing a second time: the per-channel sent
\* counter is at most the number of distinct message:sent events dispatched.
C4_ReplayCountsOnce ==
    \A c \in WChannels :
        profile.sent_count[c] <=
            Cardinality({b \in seen : b.type = "message:sent" /\ b.channel = c})

\* C24: once the handlers of the message:sent events received have all
\* ended, the sent counter of a channel is not less than the number of
\* different message:sent events received for that channel: no increment
\* was lost.
C24_NoIncrementLost ==
    procs = EmptyBag =>
        \A c \in WChannels :
            profile.sent_count[c] >=
                Cardinality({b \in seen : b.type = "message:sent" /\ b.channel = c})

\* C25: once the merge of a task completion is applied, onboarding_progress
\* is the percentage of the tracked tasks whose completed flag is set in
\* the profile, the task just completed among them.
C25_ProgressCountsCompletedTask ==
    (\E t \in TaskIds : profile.task_completed[t])
        => profile.onboarding_progress = calculateProgress(profile)

FollowUpTemplates == {"onboarding-day-2", "trial-urgency", "feature-tutorial"}

\* The follow-up sends scheduled for event b: pending timers and sends made.
FollowUpsScheduled(b) ==
    CountIn(timers, {t \in BagToSet(timers) : t.kind = "followup" /\ t.body = b})
    + CountIn(calls, {c \in BagToSet(calls) :
          c.api = "send" /\ c.arg \in FollowUpTemplates /\ c.cause = b})

CallsFor(api, b) ==
    CountIn(calls, {c \in BagToSet(calls) : c.api = api /\ c.cause = b})

\* C5: however often an event is delivered, it schedules at most one
\* follow-up send, invokes at most one click automation and sends at most
\* one milestone message.
C5_ReplayTriggersOnce ==
    /\ \A b \in OpenedBodies : FollowUpsScheduled(b) <= 1
    /\ \A b \in ClickedBodies : CallsFor("invoke", b) <= 1
    /\ \A b \in InboxReadBodies : CallsFor("send", b) <= 1

\* Event b has had an effect: a timer set or a platform call made for it.
HadEffect(b) ==
    \/ \E t \in BagToSet(timers) : t.body = b
    \/ \E c \in BagToSet(calls) : c.cause = b

\* C13: delivery status only moves forward, so an event that arrives out of
\* order is a no-op.  Of a message:opened and a message:undeliverable event
\* for one message, the one that arrives second is out of order whichever
\* it is (opened follows delivered, a bounce follows sent and ends the
\* path), so the two never both set a timer or make a call.
C13_OutOfOrderEventIsNoOp ==
    \A opened \in OpenedBodies, bounced \in UndeliverableBodies :
        opened.msg = bounced.msg => ~(HadEffect(opened) /\ HadEffect(bounced))

\* The delayed work of event b is waiting / has been carried out.
DelayedWorkWaiting(b) == \E t \in BagToSet(timers) : t.body = b
DelayedWorkDone(b) ==
    \E c \in BagToSet(calls) : c.cause = b /\ c.api \in {"retry", "send"}

\* C12: delayed work that is waiting when the process is restarted (a
\* scheduled retry of a soft bounce, a scheduled follow-up send) is still
\* carried out eventually.
C12_DelayedWorkSurvivesRestart ==
    \A b \in DelayedBodies : DelayedWorkWaiting(b) ~> DelayedWorkDone(b)

\* The message:undeliverable events whose reason is a hard failure.
HardFailureBodies ==
    {b \in UndeliverableBodies : b.reason \in {"invalid_email", "hard_bounce"}}

\* C19: the handling of a message:undeliverable event with reason
\* invalid_email or hard_bounce merges email_valid = false before it sends
\* anything, schedules no retry of the message, and sends the SMS fallback,
\* and nothing else, only for a profile that has a phone number.
C19_HardFailureHandling ==
    /\ \A c \in BagToSet(calls) :
          c.cause \in HardFailureBodies =>
              /\ c.api = "send"
              /\ c.arg = "email-invalid-sms-fallback"
              /\ profile.email_valid = "false"
              /\ profile.phone_number
    /\ \A t \in BagToSet(timers) : t.body \notin HardFailureBodies
    /\ \A p \in BagToSet(procs) :
          p.body \in HardFailureBodies =>
              /\ p.kind = "req"
              /\ p.pc # "start" => profile.email_valid = "false"

\* The SMS fallback was sent for a hard bounce.
C19_FallbackSent ==
    \E c \in BagToSet(calls) :
        /\ c.cause \in HardFailureBodies
        /\ c.cause.reason = "hard_bounce"
        /\ c.arg = "email-invalid-sms-fallback"

\* C20: a correctly signed event of a type without a handler is answered
\* 200 in the step that receives it, and nothing comes of it: no profile
\* merge, no send, no invoke, no timer, no handler left running.
C20_UnknownTypeAcknowledged ==
    /\ [][\A b \in UnknownBodies :
            PostWebhook(b, HmacSha256Hex(b, WebhookSecret))
            => /\ resp' = [sigValid |-> TRUE, body |-> b, status |-> "200"]
               /\ UNCHANGED <<profile, timers, calls, procs>>]_vars
    /\ [](/\ \A c \in BagToSet(calls) : c.cause \notin UnknownBodies
          /\ \A t \in BagToSet(timers) : t.body \notin UnknownBodies
          /\ \A p \in BagToSet(procs) : p.body \notin UnknownBodies)

\* An event of a type without a handler was answered while the handling of
\* another event had made a call of the platform.
C20_UnknownAnswered ==
    /\ resp.body \in UnknownBodies
    /\ resp.sigValid
    /\ resp.status = "200"
    /\ calls # EmptyBag

\* The handler of request p throws in this step: a platform call it awaits
\* rejects, or link.includes is called on a click event without a link.
HandlerThrows(p) ==
    \/ PlatformCallFails
    \/ /\ p.body.type = "message:clicked"
       /\ p.body.link = "undefined"
       /\ p.pc = "start"

\* C21: a correctly signed request is answered once: the step in which its
\* handler ends is the step that answers it, with 500 when the handler
\* threw and with 200 when it returned, a request of a type without a
\* handler is answered 200 at once, and every request is answered.
C21_OneResponsePerRequest ==
    /\ [][\A p \in BagToSet(procs) :
            (p.kind = "req" /\ p.sigValid /\ procs' = Take(procs, p))
            => /\ resp'.body = p.body
               /\ HandlerThrows(p) => resp'.status = "500"
               /\ ~HandlerThrows(p) => resp'.status = "200"]_vars
    /\ [][resp' # resp =>
            \/ budget' = budget - 1 /\ procs' = procs /\ resp'.status = "200"
            \/ \E p \in BagToSet(procs) : procs' = Take(procs, p)]_vars
    /\ <>[](procs = EmptyBag)

\* A handler threw after its merge and the request was answered 500.
C21_ThrewAfterMerge ==
    /\ resp.body.type = "message:clicked"
    /\ resp.status = "500"
    /\ profile.engagement_level = "high"
    /\ procs = EmptyBag

-----------------------------------------------------------------------------
(* Claims about the Slack escalation                                       *)

\* C3: consecutive checkAndEscalate calls for a customer who meets the
\* criteria send one alert: the first call sends it and marks the profile,
\* every later call sends nothing and returns false.
C3_OneAlertPerCustomer ==
    /\ escAlerts <= 1
    /\ (escAlerts >= 1 /\ escCalls = EmptyBag) => escProfile.escalated

\* C14: two checkAndEscalate calls for one eligible recipient that overlap
\* in time send at most one alert between them, however their profile
\* reads, alert sends and flag merges interleave.  (While no call has
\* returned, all calls made so far overlap.)
C14_OverlappingChecksAlertOnce ==
    escReturn = <<>> => escAlerts <= 1

\* C30: a call whose alert could not be sent ends with an error and the
\* profile not marked; a call that returns true has marked the profile; and
\* once a call that sent the alert has ended, the profile is marked.
C30_MarkedAfterAlert ==
    /\ \A i \in 1..Len(escReturn) :
          escReturn[i] = "true" => escProfile.escalated
    /\ (escAlerts = 0 /\ escReturn # <<>> /\ escReturn[Len(escReturn)] = "throws")
          => ~escProfile.escalated /\ escProfile.escalation_count = 0
    /\ (escAlerts > 0 /\ escCalls = EmptyBag) => escProfile.escalated

-----------------------------------------------------------------------------
(* Claims about the user preferences                                       *)

\* C6: whatever updatePreferences is given, and whatever preference
\* operations came before, the validated record handed to the preference
\* store has the categories security and billing enabled.
C6_RequiredCategoriesSubmitted ==
    submitted.user # "-" =>
        /\ submitted.record.categories["security"] = "true"
        /\ submitted.record.categories["billing"] = "true"

\* C7: the preferences getUserPreferences returns take the stored value of a
\* field where the stored record sets it and the built-in default
\* otherwise, except security and billing, which are enabled whatever the
\* stored record says.
C7_RequiredCategoriesReturned ==
    returned.user # "-" =>
        /\ returned.record.categories["security"] = "true"
        /\ returned.record.categories["billing"] = "true"

-----------------------------------------------------------------------------
(* Claims about quiet hours                                                *)

\* The minute of the day each configured time of day names.
ClockMinutes(text) ==
    CASE text = T2100 -> 1260
      [] text = T0900 -> 540
      [] text = T0000 -> 0
      [] text = T1230 -> 750
      [] text = T2330 -> 1410

\* The minute of the recipient's local day at the instant of the last call.
LocalMinute ==
    (qhNow.minute + TimezoneOffset(qhConfig.timezone, qhNow.dst) + 1440) % 1440

InWindow(t, start, end) ==
    IF start > end THEN t >= start \/ t < end ELSE start <= t /\ t < end

\* C18: when updatePreferences is applied with an update, applying it again
\* with the same update yields the same validated record, whatever was
\* applied before, for this user or another.
C18_SecondUpdateSame ==
    [][\A u \in Users : \A updates \in UpdateInputs :
          (prefBudget > 0
           /\ updatePreferences(u, defaultPreferences, updates, prefProfile[u]))
          => validatePreferences(defaultPreferences', updates).validated
                 = submitted'.record]_vars

\* An update that changed the limit was applied after another operation, and
\* the record it submitted is the one a second application would submit.
C18_UpdateAfterOthers ==
    /\ prefBudget <= MaxPrefOps - 2
    /\ submitted # NoSubmission
    /\ submitted.record.frequency.max_per_day = <<100>>
    /\ submitted.record # BuiltInDefaults
    /\ \E updates \in UpdateInputs :
          /\ updates.frequency.max_per_day # <<>>
          /\ validatePreferences(defaultPreferences, updates).validated
                 = submitted.record

\* C22: whatever operations were made, a user without a stored record gets
\* the built-in defaults, and an update that sets nothing validates to the
\* built-in defaults.
C22_DefaultsNeverChange ==
    /\ getUserPreferences(defaultPreferences, <<>>).preferences = BuiltInDefaults
    /\ validatePreferences(defaultPreferences, EmptyPreferences).validated
           = BuiltInDefaults

\* C23: the record that unsubscribeAll submits has unsubscribed = true, on
\* which applyPreferences answers user_unsubscribed, and every channel
\* disabled.
C23_UnsubscribeAllSubmitted ==
    [][unsubscribeAll =>
          /\ Truthy(submitted'.record.unsubscribed)
          /\ \A k \in ChannelKeys : submitted'.record.channels[k] = "false"]_vars

\* C28: a setNotificationFrequency call with a frequency that is not one
\* of realtime, daily, weekly, never throws the Invalid frequency error and
\* nothing else happens: no read, no digest automation, no update, no
\* profile merge, the stored preferences and the defaults as they were.
C28_InvalidFrequencyRejected ==
    [][\A u \in Users : \A frequency \in Frequencies \ validFrequencies :
       \A response \in Responses(u) :
          setNotificationFrequency(u, frequency, response)
          => /\ prefThrown' = "Invalid frequency"
             /\ UNCHANGED <<defaultPreferences, stored, submitted, returned,
                            prefProfile, prefDigests>>]_vars

\* An invalid frequency was refused after a digest had been configured.
C28_RefusedAfterDigest ==
    /\ prefThrown = "Invalid frequency"
    /\ prefDigests # {}
    /\ submitted # NoSubmission

-----------------------------------------------------------------------------
(* Claims about routing                                                    *)

RoutingFinished ==
    /\ rtHistory # <<>>
    /\ \/ LastAttempt.status = "success"
       \/ /\ LastAttempt.status \in {"failed", "timed_out"}
          /\ Len(rtHistory) = Len(rtRequest.channels)

FailedFailedSuccess ==
    <<Attempt("email", "failed"), Attempt("sms", "failed"),
      Attempt("push", "success")>>

-----------------------------------------------------------------------------
(* Claims about automations                                                *)

Sent(r, template) ==
    \E i \in 1..Len(autoRun[r].log) : autoRun[r].log[i] = template

\* C10: a run of the welcome flow chooses its branch from the profile as it
\* is when the 24 hour wait elapses: setup-guide is sent exactly when
\* last_login is set then, login-reminder exactly when it is not, neither
\* before the wait has elapsed, and never both.
C10_LateBinding ==
    \A r \in Recipients :
        /\ autoResumedWith[r] = <<>> =>
              ~Sent(r, "setup-guide") /\ ~Sent(r, "login-reminder")
        /\ autoResumedWith[r] # <<>> =>
              /\ Sent(r, "setup-guide") <=> autoResumedWith[r][1].last_login
              /\ Sent(r, "login-reminder") <=> ~autoResumedWith[r][1].last_login
        /\ ~(Sent(r, "setup-guide") /\ Sent(r, "login-reminder"))

\* A recipient who had not logged in when the run was invoked and had when
\* the wait elapsed was sent the setup guide.
C10_LoggedInDuringWait ==
    \E r \in Recipients :
        /\ autoInvokedWith[r] # <<>>
        /\ ~autoInvokedWith[r][1].last_login
        /\ autoResumedWith[r] # <<>>
        /\ autoResumedWith[r][1].last_login
        /\ Sent(r, "setup-guide")

\* The templates of each flow in the order its definition lists them.
DeclaredOrder(id) ==
    CASE id = "onboarding-welcome-flow" ->
            <<"welcome-email", "setup-guide", "advanced-features",
              "project-creation-guide", "login-reminder", "dormant-user-alert">>
      [] id = "post-activation-flow" ->
            <<"congrats-first-project", "pro-tips", "team-collaboration-guide",
              "invite-team-benefits">>
      [] id = "re-engagement-flow" ->
            <<"we-miss-you", "special-offer", "final-reminder">>

\* a can be had from b by leaving elements out.
RECURSIVE IsSubsequence(_, _)
IsSubsequence(a, b) ==
    IF a = <<>> THEN TRUE
    ELSE IF b = <<>> THEN FALSE
    ELSE IF Head(a) = Head(b) THEN IsSubsequence(Tail(a), Tail(b))
    ELSE IsSubsequence(a, Tail(b))

Terminal(r) == autoRun[r].status \in {"completed", "stopped"}

\* What a run has sent follows the declared order, and a stopped run is a
\* re-engagement run that sent nothing after its first message.
RunsInOrder ==
    \A r \in Recipients :
        /\ IsSubsequence(autoRun[r].log, DeclaredOrder(autoFlow[r]))
        /\ autoRun[r].status = "stopped" =>
              /\ autoFlow[r] = "re-engagement-flow"
              /\ autoRun[r].log = <<"we-miss-you">>

\* A waiting run sends nothing until it resumes, and a run that has ended
\* takes no further step.
QuietWhileSuspended ==
    \A r \in Recipients :
        /\ (autoRun[r].status = "waiting" /\ autoResumedWith'[r] = autoResumedWith[r])
              => autoRun'[r] = autoRun[r]
        /\ Terminal(r) => autoRun'[r] = autoRun[r]

-----------------------------------------------------------------------------
(* Claims about applyPreferences                                           *)

\* The minute of the day in zone timezone at the point in time t.
LocalMinuteAt(t, timezone, dst) == (t + TimezoneOffset(timezone, dst)) % 1440

\* The recipient's quiet-hours window holds at the point in time t.
QuietAt(t) ==
    /\ apInput.quiet_hours.enabled
    /\ InWindow(LocalMinuteAt(t, apInput.quiet_hours.timezone, apNow.dst),
                ClockMinutes(apInput.quiet_hours.start),
                ClockMinutes(apInput.quiet_hours.end))

\* C15: for a record with unsubscribed = true applyPreferences returns
\* send = false, reason user_unsubscribed, whatever the quiet-hours window,
\* the time and the log are, without evaluating quiet hours and without
\* querying the message log.
C15_UnsubscribedShortCircuits ==
    (apPc \in {"count", "done"} /\ apInput.unsubscribed = "true") =>
        /\ apPc = "done"
        /\ apResult = Result("false", "user_unsubscribed", 0)
        /\ ~apTrace.quiet
        /\ ~apTrace.logs

\* An unsubscribed recipient asked about during quiet hours.
C15_UnsubscribedInQuietHours ==
    /\ apPc = "done"
    /\ apInput.unsubscribed = "true"
    /\ QuietAt(Abs(apNow))
    /\ apResult.reason = "user_unsubscribed"

\* C16: when applyPreferences blocks a send for quiet hours, the reschedule
\* time is the next occurrence of the window's end in the recipient's
\* timezone: not earlier than the check, at most a day after it, at the
\* end of the window, and outside the window.
C16_RescheduleLeavesQuietHours ==
    (apPc = "done" /\ apResult.reason = "quiet_hours") =>
        /\ apResult.send = "false"
        /\ apResult.reschedule >= Abs(apNow)
        /\ apResult.reschedule <= Abs(apNow) + 1440
        /\ LocalMinuteAt(apResult.reschedule, apInput.quiet_hours.timezone,
                         apNow.dst) = ClockMinutes(apInput.quiet_hours.end)
        /\ ~QuietAt(apResult.reschedule)

\* The messages logged for the recipient on the day of the call, the day
\* being that of the server's clock.
LoggedToday ==
    LET offset == TimezoneOffset(apInput.serverZone, apNow.dst)
        DayOf(t) == (t + offset) \div 1440
    IN  SumOver(apTrace.log,
                {age \in LogAges : DayOf(Abs(apNow) - age) = DayOf(Abs(apNow))})

-----------------------------------------------------------------------------
(* Tenant notifications: properties                                        *)

\* The brands.create calls for tenant t that were answered with a brand.
BrandsCreated(t) ==
    tnCreated[t].called - tnCreated[t].failed
    - CountIn(tnProcs, {p \in BagToSet(tnProcs) : p.tenant = t /\ p.pc = "creating"})

\* C26: for each tenant at most one brands.create call is answered with a
\* brand, however the sendTenantNotification calls overlap.
C26_BrandCreatedOnce == \A t \in ConfiguredTenants : BrandsCreated(t) <= 1

\* C27: a call with a tenant id that has no configuration ends with the
\* Unknown tenant error, and nothing is created or sent for that id.
C27_UnknownTenantRejected ==
    /\ (tnOutcome # NoOutcome /\ tnOutcome.tenant \notin ConfiguredTenants)
          => tnOutcome.result = "Unknown tenant"
    /\ \A p \in BagToSet(tnProcs) : p.tenant \in ConfiguredTenants
    /\ \A m \in BagToSet(tnSent) : m.tenant \in ConfiguredTenants

-----------------------------------------------------------------------------
(* Onboarding tasks: properties                                            *)

\* The tasks createOnboardingTasks is to send for a plan: the base list and
\* the plan's list, the base list alone for a plan without one.
ExpectedTasks(userPlan) ==
    {baseTasks[i] : i \in 1..Len(baseTasks)}
    \cup (IF userPlan \in SpecificPlans
          THEN LET l == planSpecificTasks(userPlan)
               IN  {l[i] : i \in 1..Len(l)}
          ELSE {})

\* C29: the messages sent are, one each and in non-decreasing priority, the
\* tasks of the base list and the plan's list, all of them once the call
\* has ended without a send failing, and the list returned is the list
\* sent.
C29_TasksSentInPriorityOrder ==
    \A u \in Users :
        LET run == tkRun[u]
            sentSet == {run.sent[i] : i \in 1..Len(run.sent)}
        IN  run.pc # "off" =>
              /\ sentSet \subseteq ExpectedTasks(run.plan)
              /\ Cardinality(sentSet) = Len(run.sent)
              /\ \A i \in 1..Len(run.sent) : \A j \in i..Len(run.sent) :
                    run.sent[i].priority <= run.sent[j].priority
              /\ (run.pc \in {"returned", "failed"} /\ run.error # "send rejected")
                    => /\ sentSet = ExpectedTasks(run.plan)
                       /\ run.returned = run.sent

====
